---- MODULE Spec2Model ----
(***************************************************************************)
(* Model of EnhancedSerialService                                          *)
(* (src/backend/app/services/serial_service.py): the two serial channels   *)
(* (device, LoRa link), their locks, the monitoring threads, the LoRa line *)
(* framing buffer and the bounded LoRa data queue.                         *)
(*                                                                         *)
(* Text is a sequence of code points, bytes are a sequence of 0..255.      *)
(* Thread ids are integers: the callers are 1..NumCallers, the monitor     *)
(* threads are numbered in the order Thread(...).start() created them.     *)
(* 0 stands for None (no handle, no thread, lock free).                    *)
(***************************************************************************)
EXTENDS Integers, Sequences, FiniteSets, TLC

\* ------------------------------------------------------------ bounds
\* caller threads (request handlers) running service methods concurrently
NumCallers == 2
\* service calls the callers may start, all together
MaxOps == 3
\* monitor threads that may ever be started
MaxSpawn == 2
\* serial.Serial objects that may ever be created
MaxHandles == 2
\* chunks the peer sends in the service specification
SvcMaxSent == 1
\* most bytes waiting in a transport's input buffer (service specification)
SvcRxMax == 3

\* ------------------------------------------------------------ program constants
\* queue.Queue(maxsize=100)
QueueMaxSize == 100
\* max_lines_per_process
MaxLinesPerProcess == 10
\* for _ in range(5)
EvictCount == 5
\* min(self.lora_port.in_waiting, 1024)
MaxReadSize == 1024
\* '\n'
LF == 10

None == 0
\* a port argument of None (or ""): "if not port"
NoPort == ""

Callers == 1..NumCallers
Monitors == (NumCallers + 1)..(NumCallers + MaxSpawn)
Threads == Callers \cup Monitors

\* ------------------------------------------------------------ text
\* str.isspace() for code points below 256: what str.strip() removes
Whitespace == {9, 10, 11, 12, 13, 28, 29, 30, 31, 32, 133, 160}

RECURSIVE LStrip(_)
LStrip(s) == IF s # <<>> /\ Head(s) \in Whitespace THEN LStrip(Tail(s)) ELSE s

RECURSIVE RStrip(_)
RStrip(s) ==
  IF s # <<>> /\ s[Len(s)] \in Whitespace THEN RStrip(SubSeq(s, 1, Len(s) - 1)) ELSE s

\* line.strip()
Strip_Mutant(s) == s
Strip(s) == RStrip(LStrip(s))

\* '\n' in s
HasLF(s) == \E i \in 1..Len(s) : s[i] = LF

\* index of the first '\n' of s (s has one)
FirstLF(s) == CHOOSE i \in 1..Len(s) : s[i] = LF /\ \A j \in 1..(i - 1) : s[j] # LF

\* s.split('\n', 1) : <<text before the first newline, text after it>>
Split1(s) ==
  LET i == FirstLF(s) IN <<SubSeq(s, 1, i - 1), SubSeq(s, i + 1, Len(s))>>

\* s.split('\n') : every segment between newlines, the last one included
RECURSIVE SplitLines(_)
SplitLines(s) ==
  IF HasLF(s) THEN <<Split1(s)[1]>> \o SplitLines(Split1(s)[2]) ELSE <<s>>

\* bytes.decode('utf-8', errors='ignore') for one- and two-byte sequences:
\* an ASCII byte is itself, a lead byte C2..DF followed by a continuation
\* byte 80..BF is one code point, any other byte is dropped.
RECURSIVE Decode(_)
Decode(b) ==
  IF b = <<>> THEN <<>>
  ELSE IF Head(b) < 128 THEN <<Head(b)>> \o Decode(Tail(b))
  ELSE IF /\ Head(b) \in 194..223
          /\ Len(b) >= 2
          /\ b[2] \in 128..191
       THEN <<(Head(b) - 192) * 64 + (b[2] - 128)>> \o Decode(Tail(Tail(b)))
  ELSE Decode(Tail(b))

\* (command + "\n").encode('utf-8') is not modelled byte by byte: the
\* command's text does not influence the service's state.

\* ------------------------------------------------------------ TelemetryParser
\* src/core/data_parser.py
PACKET_SIZE == 34

\* bit operations on bytes
Pow2(n) == 2 ^ n
\* x & (2^n - 1)
LowBits(x, n) == x % Pow2(n)
\* (x >> n) & 1
Bit(x, n) == (x \div Pow2(n)) % 2

\* packet_bytes[i], data[i] of the source: i counts from 0
Byte(d, i) == d[i + 1]

\* struct.unpack('<h', data[start:start + 2])[0]
UnpackInt16(d, start) ==
  LET u == Byte(d, start) + 256 * Byte(d, start + 1)
  IN IF u >= 32768 THEN u - 65536 ELSE u

\* struct.unpack('<i', data[start:start + 4])[0] & 0x3FFFFFFF: the low 30 bits
\* of the little-endian word (Python's & on a negative int works on its two's
\* complement, so the sign of the 32-bit word does not matter)
UnpackLow30(d, start) ==
  Byte(d, start) + 256 * Byte(d, start + 1) + 65536 * Byte(d, start + 2)
    + 16777216 * LowBits(Byte(d, start + 3), 6)

\* lat_raw & 0x20000000: bit 29 of the word is bit 5 of its last byte
SignBit30_Mutant(d, start) == Bit(Byte(d, start + 3), 6) = 1
SignBit30(d, start) == Bit(Byte(d, start + 3), 5) = 1

\* latitude and longitude in units of 1e-7 degree: "(raw & 0x3FFFFFFF) / 1e7",
\* minus 107.3741824 = 2^30 / 1e7 when bit 29 is set
Coordinate(d, start) ==
  UnpackLow30(d, start) - (IF SignBit30(d, start) THEN 1073741824 ELSE 0)

\* SYSTEM_FLAGS: bit mask -> name
SYSTEM_FLAGS ==
  <<"ARMED", "GPS_FIX", "ALTITUDE_HOLD", "BATTERY_LOW", "SENSOR_ERROR",
    "RECOVERY_MODE", "DATA_LOGGING", "TELEMETRY_ACTIVE">>

\* the fields of a decoded packet (lines 100-159). Scaled floats are kept as the
\* integer they are computed from: temp_cC in 0.01 degree C, gyro in 0.1 dps,
\* latitude and longitude in 1e-7 degree.
DecodeFields(d) ==
  LET temp_raw == LowBits(Byte(d, 4), 6) * 256 + Byte(d, 3)
      mag_start == 7
      accel_start == mag_start + 6
      gyro_start == accel_start + 6
      lat_start == gyro_start + 6
      lon_start == lat_start + 4
      flags_byte == Byte(d, 32)
  IN [time_ms   |-> Byte(d, 2) * 65536 + Byte(d, 1) * 256 + Byte(d, 0),
      temp_cC   |-> IF Bit(temp_raw, 13) = 1 THEN temp_raw - 16384 ELSE temp_raw,
      pressPa   |-> LowBits(Byte(d, 6), 4) * 65536 + Byte(d, 5) * 256
                      + (Byte(d, 4) \div 64),
      mag_x     |-> UnpackInt16(d, mag_start),
      mag_y     |-> UnpackInt16(d, mag_start + 2),
      mag_z     |-> UnpackInt16(d, mag_start + 4),
      accel_x   |-> UnpackInt16(d, accel_start),
      accel_y   |-> UnpackInt16(d, accel_start + 2),
      accel_z   |-> UnpackInt16(d, accel_start + 4),
      gyro_x    |-> UnpackInt16(d, gyro_start),
      gyro_y    |-> UnpackInt16(d, gyro_start + 2),
      gyro_z    |-> UnpackInt16(d, gyro_start + 4),
      latitude  |-> Coordinate(d, lat_start),
      longitude |-> Coordinate(d, lon_start),
      flags_raw |-> flags_byte,
      flags     |-> {SYSTEM_FLAGS[k + 1] : k \in {j \in 0..7 : Bit(flags_byte, j) = 1}}]

\* "if len(data) != self.PACKET_SIZE" (line 97)
BadLength_Mutant(d) == Len(d) < PACKET_SIZE
BadLength(d) == Len(d) # PACKET_SIZE

\* _parse_packet(data): the exception it raises ("" for none) and the records
\* it returns (none or one)
ParsePacket(d) ==
  IF BadLength(d)
  THEN [raised |-> "ValueError", record |-> <<>>]
  ELSE [raised |-> "", record |-> <<DecodeFields(d)>>]

\* _parse_packet has not been called on data
NoPacket == [raised |-> "not_called", record |-> <<>>]

\* no file has been written
NoFile == [exists |-> FALSE, bytes |-> <<>>]

\* parse_file has not been called. The warning parse_file prints about the
\* bytes it ignores (lines 54-56) is kept as the number it reports, 0 for none.
NoTable == [raised |-> "not_called", rows |-> <<>>, ignored |-> 0]

\* removing element i of a sequence
RemoveAt(seq, i) == SubSeq(seq, 1, i - 1) \o SubSeq(seq, i + 1, Len(seq))

\* df.sort_values('time_ms'): pandas sorts with quicksort, which leaves the
\* order of rows with equal keys open. Every outcome: the next row is one of
\* those with the least time_ms, taken out of the rows left.
LeastRows(rows) == {i \in 1..Len(rows) : \A j \in 1..Len(rows) : rows[i].time_ms <= rows[j].time_ms}

Taken_Mutant(rows, i) == SelectSeq(rows, LAMBDA r : r.time_ms # rows[i].time_ms)
Taken(rows, i) == RemoveAt(rows, i)

RECURSIVE SortValues(_)
SortValues(rows) ==
  IF rows = <<>> THEN {<<>>}
  ELSE UNION {{<<rows[i]>> \o rest : rest \in SortValues(Taken(rows, i))} :
                i \in LeastRows(rows)}

\* sign of the altitude 44330 * (1 - (pressPa / 101325) ** (1 / 5.255)):
\* 0 exactly at sea level pressure
sea_level_pressure == 101325
AltitudeSign(pressPa) ==
  IF pressPa = sea_level_pressure THEN 0
  ELSE IF pressPa < sea_level_pressure THEN 1 ELSE -1

\* _process_dataframe before the sort (lines 167-179): a row is the decoded
\* packet with the derived columns; time_s is kept in milliseconds
\* ("(time_ms - start_time_ms) / 1000.0"), the altitude as its sign
DerivedRows(packets) ==
  LET start_time_ms == packets[1].time_ms
  IN [i \in 1..Len(packets) |->
        [packet |-> packets[i],
         time_ms |-> packets[i].time_ms,
         time_s |-> packets[i].time_ms - start_time_ms,
         altitude |-> AltitudeSign(packets[i].pressPa)]]

\* _process_dataframe(df): every table it can return
ProcessDataframe(packets) ==
  IF packets = <<>> THEN {<<>>} ELSE SortValues(DerivedRows(packets))

\* "packet_data = data[offset:offset + self.PACKET_SIZE]", i from 0
PacketData_Mutant(bytes, i) ==
  SubSeq(bytes, i * (PACKET_SIZE - 1) + 1, i * (PACKET_SIZE - 1) + PACKET_SIZE)
PacketData(bytes, i) == SubSeq(bytes, i * PACKET_SIZE + 1, (i + 1) * PACKET_SIZE)

\* the loop of parse_file (lines 60-69): the packets decoded, a frame whose
\* decoding raises being skipped
RECURSIVE ParsedPackets(_, _, _)
ParsedPackets(bytes, i, total_packets) ==
  IF i = total_packets THEN <<>>
  ELSE ParsePacket(PacketData(bytes, i)).record \o ParsedPackets(bytes, i + 1, total_packets)

\* parse_file(filename): every outcome. A missing file makes open() raise,
\* which parse_file raises again as Exception.
ParseFile(f) ==
  IF ~f.exists THEN {[raised |-> "Exception", rows |-> <<>>, ignored |-> 0]}
  ELSE LET total_packets == Len(f.bytes) \div PACKET_SIZE
           packets == ParsedPackets(f.bytes, 0, total_packets)
       IN {[raised |-> "", rows |-> rows, ignored |-> Len(f.bytes) % PACKET_SIZE] :
             rows \in ProcessDataframe(packets)}

\* ------------------------------------------------------------ state
VARIABLES
  handles,              \* the serial.Serial objects created so far: [phys, open, rx]
  device_port,          \* self.device_port: index into handles, or None
  lora_port,            \* self.lora_port
  device_lock,          \* self.device_lock: the thread holding it, or None
  lora_lock,            \* self.lora_lock
  is_monitoring,        \* self.is_monitoring
  is_lora_monitoring,   \* self.is_lora_monitoring
  stop_event,           \* self.stop_event.is_set()
  lora_stop_event,      \* self.lora_stop_event.is_set()
  monitor_thread,       \* self.monitor_thread: thread id, or None
  lora_monitor_thread,  \* self.lora_monitor_thread
  telemetry_callback,   \* self.telemetry_callback is set
  lora_data_queue,      \* self.lora_data_queue: items, oldest first
  lora_buffer,          \* self.lora_buffer
  pc,                   \* where each thread is
  kind,                 \* target of each monitor thread: "lora", "tele" or "none"
  loc,                  \* each thread's local variables
  ret,                  \* what each caller's last call returned
  nops,                 \* calls started so far
  nspawn,               \* monitor threads started so far
  sent,                 \* chunks the peers have sent so far
  data,                 \* TelemetryParser: the bytes given to _parse_packet
  packet,               \* TelemetryParser: what _parse_packet did with them
  file,                 \* the telemetry file on disk
  df,                   \* TelemetryParser: what parse_file did with the file
  hist                  \* history (ghost) variables, see HistInit

\* the variables of EnhancedSerialService and its peers
service_vars ==
  <<handles, device_port, lora_port, device_lock, lora_lock, is_monitoring,
    is_lora_monitoring, stop_event, lora_stop_event, monitor_thread,
    lora_monitor_thread, telemetry_callback, lora_data_queue, lora_buffer,
    pc, kind, loc, ret, nops, nspawn, sent, hist>>

vars == <<handles, device_port, lora_port, device_lock, lora_lock, is_monitoring,
          is_lora_monitoring, stop_event, lora_stop_event, monitor_thread,
          lora_monitor_thread, telemetry_callback, lora_data_queue, lora_buffer,
          pc, kind, loc, ret, nops, nspawn, sent, data, packet, file, df, hist>>

\* the variables of the connection and monitoring lifecycle
conn_vars == <<device_port, lora_port, device_lock, is_monitoring,
               is_lora_monitoring, stop_event, lora_stop_event, monitor_thread,
               lora_monitor_thread, telemetry_callback, kind, ret, nops, nspawn>>

\* locals of a thread that is not inside a call
NoLocals ==
  [port |-> NoPort, h |-> None, use_lora |-> FALSE, nested |-> "",
   item |-> [content |-> <<>>, seq |-> 0], i |-> 0, processed |-> 0,
   partial_line |-> <<>>, response_lines |-> <<>>, received |-> <<>>,
   prev |-> None]

\* What a call returned: ok = FALSE is False or None, text the string
\* send_command returned. why and received are history: on which path
\* send_command returned, and the text it had read from the port by then.
NoRet == [op |-> "", ok |-> FALSE, text |-> <<>>, why |-> "", received |-> <<>>]

\* History variables. They record what happened and never influence a step.
\*   lora_text     text the LoRa monitor appended to lora_buffer since the
\*                 buffer was last reset
\*   emitted       content of every non-empty line _process_lora_buffer produced
\*   session_base  Len(emitted) when lora_buffer was last reset
\*   last_got      seq of the item the last successful get_lora_data returned
\*   full_q0       the queue when the last put failed with queue.Full
\*   taken         items consumers took since that failed put
\*   evicted       items the monitor removed since that failed put
\*   carry         lora_buffer as the last read of the LoRa monitor found it
\*   lora_stopped  a stop_lora_monitoring call returned while no call that
\*                 starts LoRa monitoring was in progress, and none began since
\*   tele_stopped  the same for telemetry monitoring
\*   callbacks     invocations of the telemetry callback
\*   drain_buf     lora_buffer when the last call of _process_lora_buffer began
\*   drain_base    Len(emitted) when that call began
\*   lora_cmd_on   the handle the last LoRa command was written to
\*   tele_text     the text the telemetry monitors have read
\*   restop        the kinds of monitoring ("lora", "tele") for which a stop
\*                 call began while lora_stopped (tele_stopped) was true
HistInit ==
  [lora_text |-> <<>>, emitted |-> <<>>, session_base |-> 0, last_got |-> 0,
   full_q0 |-> <<>>, taken |-> 0, evicted |-> 0,
   carry |-> <<>>, lora_stopped |-> FALSE, tele_stopped |-> FALSE, callbacks |-> 0,
   drain_buf |-> <<>>, drain_base |-> 0, lora_cmd_on |-> None, restop |-> {},
   tele_text |-> <<>>]

\* EnhancedSerialService.__init__
Init ==
  /\ handles = <<>>
  /\ device_port = None
  /\ lora_port = None
  /\ device_lock = None
  /\ lora_lock = None
  /\ is_monitoring = FALSE
  /\ is_lora_monitoring = FALSE
  /\ stop_event = FALSE
  /\ lora_stop_event = FALSE
  /\ monitor_thread = None
  /\ lora_monitor_thread = None
  /\ telemetry_callback = FALSE
  /\ lora_data_queue = <<>>
  /\ lora_buffer = <<>>
  /\ pc = [t \in Threads |-> IF t \in Callers THEN "idle" ELSE "unborn"]
  /\ kind = [t \in Monitors |-> "none"]
  /\ loc = [t \in Threads |-> NoLocals]
  /\ ret = [c \in Callers |-> NoRet]
  /\ nops = 0
  /\ nspawn = 0
  /\ sent = 0
  /\ data = <<>>
  /\ packet = NoPacket
  /\ file = NoFile
  /\ df = NoTable
  /\ hist = HistInit

\* ------------------------------------------------------------ serial.Serial
IsOpen(h) == h # None /\ handles[h].open

\* port.in_waiting
InWaiting(h) == Len(handles[h].rx)

\* port.read(n): <<bytes read, handles afterwards>>
PortRead(h, n) ==
  <<SubSeq(handles[h].rx, 1, n),
    [handles EXCEPT ![h].rx = SubSeq(handles[h].rx, n + 1, Len(handles[h].rx))]>>

Min(a, b) == IF a < b THEN a ELSE b

\* ------------------------------------------------------------ locks
\* Lock.acquire() succeeds only on a free lock ("with lock:" blocks otherwise)
CanAcquire_Mutant(lock, t) == TRUE
CanAcquire(lock, t) == lock = None

\* ------------------------------------------------------------ queue.Queue
\* Queue.put(item, block=False) raises queue.Full on a full queue
QueueFull_Mutant(q) == FALSE
QueueFull(q) == Len(q) >= QueueMaxSize

\* Queue.put(item) on a queue with room: the item becomes the newest one
QueuePut_Mutant(q, item) == <<item>> \o q
QueuePut(q, item) == Append(q, item)

\* Queue.get_nowait() on a non-empty queue: <<the oldest item, the queue afterwards>>
QueueGet(q) == <<Head(q), Tail(q)>>

\* ------------------------------------------------------------ _lora_monitor_loop
LoraMonitors == {t \in Monitors : kind[t] = "lora"}
TeleMonitors == {t \in Monitors : kind[t] = "tele"}
Alive(t) == pc[t] \notin {"unborn", "dead"}

\* One evaluation of the loop head up to the in_waiting test (lines 277-285):
\* the loop ends when monitoring was switched off; an absent or closed port
\* (or an in_waiting that raises because the port was just closed) and an
\* empty input buffer lead back to the loop head after a sleep.
LoraLoopExit(t) ==
  /\ t \in LoraMonitors /\ pc[t] = "lm_top"
  /\ ~(is_lora_monitoring /\ ~lora_stop_event)
  /\ pc' = [pc EXCEPT ![t] = "dead"]
  /\ UNCHANGED <<handles, conn_vars, lora_lock, lora_data_queue, lora_buffer, loc,
                 sent, data, packet, file, df, hist>>

LoraLoopPoll(t) ==
  /\ t \in LoraMonitors /\ pc[t] = "lm_top"
  /\ is_lora_monitoring /\ ~lora_stop_event
  /\ IsOpen(lora_port) /\ InWaiting(lora_port) > 0
  /\ pc' = [pc EXCEPT ![t] = "lm_acquire"]
  /\ UNCHANGED <<handles, conn_vars, lora_lock, lora_data_queue, lora_buffer, loc,
                 sent, data, packet, file, df, hist>>

\* "with self.lora_lock:" followed by the read (lines 286-296)
LoraRead(t) ==
  /\ t \in LoraMonitors /\ pc[t] = "lm_acquire"
  /\ CanAcquire(lora_lock, t)
  /\ IsOpen(lora_port)
  /\ LET r == PortRead(lora_port, Min(InWaiting(lora_port), MaxReadSize))
         raw_data == Decode(r[1])
     IN /\ handles' = r[2]
        /\ IF raw_data # <<>>
           THEN /\ lora_buffer' = lora_buffer \o raw_data
                /\ hist' = [hist EXCEPT !.lora_text = @ \o raw_data,
                                        !.carry = lora_buffer,
                                        !.drain_buf = lora_buffer \o raw_data,
                                        !.drain_base = Len(hist.emitted)]
                /\ lora_lock' = t
                /\ loc' = [loc EXCEPT ![t].processed = 0]
                /\ pc' = [pc EXCEPT ![t] = "pb_loop"]
           ELSE /\ pc' = [pc EXCEPT ![t] = "lm_top"]
                /\ UNCHANGED <<lora_lock, lora_buffer, loc, hist>>
  /\ UNCHANGED <<conn_vars, lora_data_queue, sent, data, packet, file, df>>

\* The read fails (lines 298-303): the port was closed meanwhile or the
\* transport reports an error, in_waiting or read raises inside the with
\* block, which releases the lock. A serial.SerialException is logged and
\* the loop sleeps 1 s and continues; any other exception is logged and the
\* loop goes on after 10 ms. A transport can fail at any time.
LoraReadError(t) ==
  /\ t \in LoraMonitors /\ pc[t] = "lm_acquire"
  /\ CanAcquire(lora_lock, t)
  /\ pc' = [pc EXCEPT ![t] = "lm_top"]
  /\ UNCHANGED <<handles, conn_vars, lora_lock, lora_data_queue, lora_buffer, loc,
                 sent, data, packet, file, df, hist>>

\* ------------------------------------------------------------ _process_lora_buffer
\* "processed_lines < max_lines_per_process" (line 319)
UnderCap_Mutant(processed) == TRUE
UnderCap(processed) == processed < MaxLinesPerProcess

\* the end of the while loop: no newline left or the per-call cap reached;
\* the with block of the monitor loop ends and the lock is released
ProcessDone(t) ==
  /\ t \in LoraMonitors /\ pc[t] = "pb_loop"
  /\ ~(HasLF(lora_buffer) /\ UnderCap(loc[t].processed))
  /\ lora_lock' = None
  /\ pc' = [pc EXCEPT ![t] = "lm_top"]
  /\ UNCHANGED <<handles, conn_vars, lora_data_queue, lora_buffer, loc, sent, data, packet, file, df, hist>>

\* one iteration of the while loop up to the first put (lines 319-336)
ProcessLine(t) ==
  /\ t \in LoraMonitors /\ pc[t] = "pb_loop"
  /\ HasLF(lora_buffer) /\ UnderCap(loc[t].processed)
  /\ LET line == Strip(Split1(lora_buffer)[1])
         data_item == [content |-> line, seq |-> Len(hist.emitted) + 1]
     IN /\ lora_buffer' = Split1(lora_buffer)[2]
        /\ IF line = <<>>
           THEN /\ loc' = [loc EXCEPT ![t].processed = @ + 1]
                /\ UNCHANGED <<lora_data_queue, pc, hist>>
           ELSE IF ~QueueFull(lora_data_queue)
           THEN /\ lora_data_queue' = QueuePut(lora_data_queue, data_item)
                /\ loc' = [loc EXCEPT ![t].processed = @ + 1]
                /\ hist' = [hist EXCEPT !.emitted = Append(@, line)]
                /\ UNCHANGED pc
           ELSE \* queue.Full
                /\ loc' = [loc EXCEPT ![t].processed = @ + 1, ![t].item = data_item,
                                      ![t].i = 0]
                /\ hist' = [hist EXCEPT !.emitted = Append(@, line),
                                        !.full_q0 = lora_data_queue,
                                        !.taken = 0, !.evicted = 0]
                /\ pc' = [pc EXCEPT ![t] = "pb_evict"]
                /\ UNCHANGED lora_data_queue
  /\ UNCHANGED <<handles, conn_vars, lora_lock, sent, data, packet, file, df>>

\* "for _ in range(5)" has run i times: the loop is over
EvictionDone_Mutant(i) == i = EvictCount + 1
EvictionDone(i) == i = EvictCount

\* one get_nowait() of "for _ in range(5)" (lines 340-342); queue.Empty leads
\* to the direct put of the except branch
EvictOne(t) ==
  /\ t \in LoraMonitors /\ pc[t] = "pb_evict"
  /\ IF lora_data_queue = <<>>
     THEN /\ pc' = [pc EXCEPT ![t] = "pb_put_direct"]
          /\ UNCHANGED <<lora_data_queue, loc, hist>>
     ELSE /\ lora_data_queue' = QueueGet(lora_data_queue)[2]
          /\ loc' = [loc EXCEPT ![t].i = @ + 1]
          /\ hist' = [hist EXCEPT !.evicted = @ + 1]
          /\ pc' = [pc EXCEPT ![t] = IF EvictionDone(loc[t].i + 1)
                                     THEN "pb_put_again" ELSE "pb_evict"]
  /\ UNCHANGED <<handles, conn_vars, lora_lock, lora_buffer, sent, data, packet, file, df>>

\* "Try to add the new item again" (line 345); a queue.Full here is caught by
\* "except Exception" (line 353) and the item is lost
PutAgain(t) ==
  /\ t \in LoraMonitors /\ pc[t] = "pb_put_again"
  /\ lora_data_queue' = IF QueueFull(lora_data_queue) THEN lora_data_queue
                        ELSE QueuePut(lora_data_queue, loc[t].item)
  /\ pc' = [pc EXCEPT ![t] = "pb_loop"]
  /\ UNCHANGED <<handles, conn_vars, lora_lock, lora_buffer, loc, sent, data, packet, file, df, hist>>

\* "Queue became empty, try to add directly" (lines 347-352); on queue.Full
\* the message is dropped with a warning
PutDirect(t) ==
  /\ t \in LoraMonitors /\ pc[t] = "pb_put_direct"
  /\ lora_data_queue' = IF QueueFull(lora_data_queue) THEN lora_data_queue
                        ELSE QueuePut(lora_data_queue, loc[t].item)
  /\ pc' = [pc EXCEPT ![t] = "pb_loop"]
  /\ UNCHANGED <<handles, conn_vars, lora_lock, lora_buffer, loc, sent, data, packet, file, df, hist>>

\* ------------------------------------------------------------ get_lora_data
\* a consumer (the WebSocket streaming worker) takes the next item; on an empty
\* queue the call returns None and changes nothing
GetLoraData ==
  /\ lora_data_queue # <<>>
  /\ lora_data_queue' = QueueGet(lora_data_queue)[2]
  /\ hist' = [hist EXCEPT !.last_got = QueueGet(lora_data_queue)[1].seq,
                          !.taken = @ + 1]
  /\ UNCHANGED <<handles, conn_vars, lora_lock, lora_buffer, pc, loc, sent, data, packet, file, df>>

\* ------------------------------------------------------------ the peers
\* the device or the LoRa link puts bytes into the input buffer of an open handle
PeerSends(h, bytes) ==
  /\ handles[h].open
  /\ handles' = [handles EXCEPT ![h].rx = @ \o bytes]
  /\ sent' = sent + 1
  /\ UNCHANGED <<conn_vars, lora_lock, lora_data_queue, lora_buffer, pc, loc, hist,
                 data, packet, file, df>>

\* ------------------------------------------------------------ find_devices
\* settings.device_vid, device_pid, lora_vid, lora_pid (core/config.py)
device_vid == <<"0", "4", "8", "3">>
device_pid == <<"5", "7", "4", "0">>
lora_vid == <<"0", "4", "8", "3">>
lora_pid == <<"5", "7", "4", "0">>

HexDigits ==
  <<"0", "1", "2", "3", "4", "5", "6", "7", "8", "9", "A", "B", "C", "D", "E", "F">>

\* f"{n:04X}" for n below 65536
Hex4(n) ==
  <<HexDigits[((n \div 4096) % 16) + 1], HexDigits[((n \div 256) % 16) + 1],
    HexDigits[((n \div 16) % 16) + 1], HexDigits[(n % 16) + 1]>>

\* What serial.tools.list_ports.comports() may return: nothing, one board
\* 0483:5740 on COM3, two such boards on COM3 and COM4, or a foreign
\* adapter (1A86:7523) on COM3.
PortConfigs ==
  { <<>>,
    <<[device |-> "COM3", vid |-> 1155, pid |-> 22336]>>,
    <<[device |-> "COM3", vid |-> 1155, pid |-> 22336],
      [device |-> "COM4", vid |-> 1155, pid |-> 22336]>>,
    <<[device |-> "COM3", vid |-> 6790, pid |-> 29987]>> }

\* the ports of the list whose VID:PID is the given pair, in list order
RECURSIVE PortsMatching(_, _, _)
PortsMatching(ports, vid, pid) ==
  IF ports = <<>> THEN <<>>
  ELSE LET port == Head(ports)
           rest == PortsMatching(Tail(ports), vid, pid)
       IN IF /\ port.vid # 0 /\ port.pid # 0
             /\ Hex4(port.vid) = vid /\ Hex4(port.pid) = pid
          THEN <<port.device>> \o rest
          ELSE rest

find_devices(ports) ==
  [device |-> PortsMatching(ports, device_vid, device_pid),
   lora_link |-> PortsMatching(ports, lora_vid, lora_pid)]

\* port names a caller may pass to connect_device / connect_lora_link
PortArgs == {NoPort, "COM3", "COM4"}

\* ------------------------------------------------------------ calls
\* Every call a caller has begun and not finished may still create a handle
\* or a thread; a call begins only while the model's bounds leave room for it.
OpeningPcs == {"cd_open", "cl_open"}
SpawningPcs == {"cl_open", "sl_check", "sl_set", "sl_clear", "sl_spawn",
                "st_set", "st_clear", "st_spawn"}
HandleRoom ==
  Len(handles) + Cardinality({c \in Callers : pc[c] \in OpeningPcs}) < MaxHandles
SpawnRoom ==
  nspawn + Cardinality({c \in Callers : pc[c] \in SpawningPcs}) < MaxSpawn

\* the first statement of each public method, and what the call needs
EntryPc ==
  [connect_device |-> "cd_lock", connect_lora_link |-> "cl_lock",
   disconnect_device |-> "dd_close", disconnect_lora_link |-> "xl_check",
   send_command |-> "sc_capture",
   start_lora_monitoring |-> "sl_check", stop_lora_monitoring |-> "xl_check",
   start_telemetry_monitoring |-> "st_set", stop_telemetry_monitoring |-> "xt_set",
   teardown |-> "xt_set"]

Methods == DOMAIN EntryPc

\* the methods that start a monitor, and where a caller inside one of them is
LoraStarters == {"connect_lora_link", "start_lora_monitoring"}
TeleStarters == {"start_telemetry_monitoring"}
LoraStartPcs == {"cl_lock", "cl_open", "sl_check", "sl_set", "sl_clear", "sl_spawn"}
TeleStartPcs == {"st_set", "st_clear", "st_spawn"}

\* A caller begins a call of a public method. "teardown" is __del__ (lines
\* 537-542): it runs when no call is in progress, and no call follows it.
Call(c, method, port, use_lora) ==
  /\ pc[c] = "idle"
  /\ nops < MaxOps
  /\ method = "teardown" => \A d \in Callers : pc[d] = "idle"
  /\ method \in {"connect_device", "connect_lora_link"} => HandleRoom
  /\ method \in {"connect_lora_link", "start_lora_monitoring",
                 "start_telemetry_monitoring"} => SpawnRoom
  /\ method \notin {"connect_device", "connect_lora_link"} => port = NoPort
  /\ method # "send_command" => use_lora = FALSE
  /\ pc' = [pc EXCEPT ![c] = EntryPc[method]]
  /\ loc' = [loc EXCEPT ![c] =
               [NoLocals EXCEPT !.port = port, !.use_lora = use_lora,
                                !.nested = IF method \in {"disconnect_lora_link",
                                                            "teardown"}
                                           THEN method ELSE ""]]
  /\ nops' = IF method = "teardown" THEN MaxOps ELSE nops + 1
  /\ hist' = [hist EXCEPT
                !.restop = @ \cup
                  (IF method = "stop_lora_monitoring" /\ hist.lora_stopped
                   THEN {"lora"} ELSE {}) \cup
                  (IF method = "stop_telemetry_monitoring" /\ hist.tele_stopped
                   THEN {"tele"} ELSE {}),
                !.lora_stopped = IF method \in LoraStarters THEN FALSE ELSE @,
                !.tele_stopped = IF method \in TeleStarters THEN FALSE ELSE @]
  /\ UNCHANGED <<handles, device_port, lora_port, device_lock, lora_lock,
                 is_monitoring, is_lora_monitoring, stop_event, lora_stop_event,
                 monitor_thread, lora_monitor_thread, telemetry_callback,
                 lora_data_queue, lora_buffer, kind, ret, nspawn, sent, data, packet, file, df>>

Result(op, ok) == [NoRet EXCEPT !.op = op, !.ok = ok]

\* port.close()
Closed(hs, h) == IF h # None /\ hs[h].open THEN [hs EXCEPT ![h].open = FALSE] ELSE hs

\* The close of the existing connection (lines 92-93, 124-125) comes after
\* the discovery: a call that returned "no device found" has not reached it.
CloseExisting_Mutant(no_device, hs, h) == Closed(hs, h)
CloseExisting(no_device, hs, h) == IF no_device THEN hs ELSE Closed(hs, h)

\* serial.Serial(port=...): a new open handle with an empty input buffer
Opened(hs, port) == Append(hs, [phys |-> port, open |-> TRUE, rx |-> <<>>])

\* ------------------------------------------------------------ connect_device
\* "with self.device_lock:", discovery when no port was given, and the close
\* of the existing connection (lines 82-93)
ConnectDeviceBegin(c) ==
  /\ pc[c] = "cd_lock"
  /\ CanAcquire(device_lock, c)
  /\ \E ports \in PortConfigs :
       LET devices == find_devices(ports)
           no_device == loc[c].port = NoPort /\ devices["device"] = <<>>
       IN /\ handles' = CloseExisting(no_device, handles, device_port)
          /\ IF no_device
             THEN \* "No stratospheric device found"
                  /\ pc' = [pc EXCEPT ![c] = "idle"]
                  /\ ret' = [ret EXCEPT ![c] = [Result("connect_device", FALSE)
                                                  EXCEPT !.why = "no_device"]]
                  /\ loc' = [loc EXCEPT ![c] = NoLocals]
                  /\ UNCHANGED device_lock
             ELSE /\ device_lock' = c
                  /\ loc' = [loc EXCEPT ![c].port = IF loc[c].port = NoPort
                                                    THEN devices["device"][1]
                                                    ELSE loc[c].port,
                                      ![c].prev = IF IsOpen(device_port)
                                                    THEN device_port ELSE None]
                  /\ pc' = [pc EXCEPT ![c] = "cd_open"]
                  /\ UNCHANGED ret
  /\ UNCHANGED <<device_port, lora_port, lora_lock, is_monitoring, is_lora_monitoring,
                 stop_event, lora_stop_event, monitor_thread, lora_monitor_thread,
                 telemetry_callback, lora_data_queue, lora_buffer, kind, nops,
                 nspawn, sent, data, packet, file, df, hist>>

\* serial.Serial(...) and the rest of the with block (lines 95-112). The open
\* may raise (no such port, port busy, no permission); whether a port already
\* opened by this process can be opened again depends on the platform, so
\* both outcomes are possible.
ConnectDeviceOpen(c) ==
  /\ pc[c] = "cd_open"
  /\ \E ok \in BOOLEAN :
       IF ok
       THEN /\ handles' = Opened(handles, loc[c].port)
            /\ device_port' = Len(handles) + 1
            /\ ret' = [ret EXCEPT ![c] = Result("connect_device", TRUE)]
       ELSE /\ ret' = [ret EXCEPT ![c] = Result("connect_device", FALSE)]
            /\ UNCHANGED <<handles, device_port>>
  /\ device_lock' = None
  /\ pc' = [pc EXCEPT ![c] = "idle"]
  /\ loc' = [loc EXCEPT ![c] = NoLocals]
  /\ UNCHANGED <<lora_port, lora_lock, is_monitoring, is_lora_monitoring,
                 stop_event, lora_stop_event, monitor_thread, lora_monitor_thread,
                 telemetry_callback, lora_data_queue, lora_buffer, kind, nops,
                 nspawn, sent, data, packet, file, df, hist>>

\* ------------------------------------------------------------ connect_lora_link
\* lines 116-127
ConnectLoraBegin(c) ==
  /\ pc[c] = "cl_lock"
  /\ CanAcquire(lora_lock, c)
  /\ \E ports \in PortConfigs :
       LET devices == find_devices(ports)
           no_device == loc[c].port = NoPort /\ devices["lora_link"] = <<>>
       IN /\ handles' = CloseExisting(no_device, handles, lora_port)
          /\ IF no_device
             THEN \* "No LoRa Link found"
                  /\ pc' = [pc EXCEPT ![c] = "idle"]
                  /\ ret' = [ret EXCEPT ![c] = [Result("connect_lora_link", FALSE)
                                                  EXCEPT !.why = "no_device"]]
                  /\ loc' = [loc EXCEPT ![c] = NoLocals]
                  /\ UNCHANGED lora_lock
             ELSE /\ lora_lock' = c
                  /\ loc' = [loc EXCEPT ![c].port = IF loc[c].port = NoPort
                                                    THEN devices["lora_link"][1]
                                                    ELSE loc[c].port,
                                      ![c].prev = IF IsOpen(lora_port)
                                                    THEN lora_port ELSE None]
                  /\ pc' = [pc EXCEPT ![c] = "cl_open"]
                  /\ UNCHANGED ret
  /\ UNCHANGED <<device_port, lora_port, device_lock, is_monitoring,
                 is_lora_monitoring, stop_event, lora_stop_event, monitor_thread,
                 lora_monitor_thread, telemetry_callback, lora_data_queue,
                 lora_buffer, kind, nops, nspawn, sent, data, packet, file, df, hist>>

\* lines 129-148: the open, the buffer reset and the emptying of the queue;
\* the call goes on into start_lora_monitoring with the lock held
ConnectLoraOpen(c) ==
  /\ pc[c] = "cl_open"
  /\ \E ok \in BOOLEAN :
       IF ok
       THEN /\ handles' = Opened(handles, loc[c].port)
            /\ lora_port' = Len(handles) + 1
            /\ lora_buffer' = <<>>
            /\ lora_data_queue' = <<>>
            /\ hist' = [hist EXCEPT !.lora_text = <<>>, !.carry = <<>>,
                                    !.session_base = Len(hist.emitted)]
            /\ pc' = [pc EXCEPT ![c] = "sl_check"]
            /\ loc' = [loc EXCEPT ![c].nested = "connect_lora_link"]
            /\ UNCHANGED <<lora_lock, ret>>
       ELSE /\ lora_lock' = None
            /\ ret' = [ret EXCEPT ![c] = Result("connect_lora_link", FALSE)]
            /\ pc' = [pc EXCEPT ![c] = "idle"]
            /\ loc' = [loc EXCEPT ![c] = NoLocals]
            /\ UNCHANGED <<handles, lora_port, lora_buffer, lora_data_queue, hist>>
  /\ UNCHANGED <<device_port, device_lock, is_monitoring, is_lora_monitoring,
                 stop_event, lora_stop_event, monitor_thread, lora_monitor_thread,
                 telemetry_callback, kind, nops, nspawn, sent, data, packet, file, df>>

\* ------------------------------------------------------------ disconnect_device
DisconnectDevice(c) ==
  /\ pc[c] = "dd_close"
  /\ CanAcquire(device_lock, c)
  /\ handles' = Closed(handles, device_port)
  /\ IF loc[c].nested = "teardown"
     THEN \* __del__ goes on with disconnect_lora_link
          /\ pc' = [pc EXCEPT ![c] = "xl_check"]
          /\ loc' = [loc EXCEPT ![c].nested = "disconnect_lora_link"]
          /\ UNCHANGED ret
     ELSE /\ pc' = [pc EXCEPT ![c] = "idle"]
          /\ ret' = [ret EXCEPT ![c] = Result("disconnect_device", TRUE)]
          /\ loc' = [loc EXCEPT ![c] = NoLocals]
  /\ UNCHANGED <<device_port, lora_port, device_lock, lora_lock, is_monitoring,
                 is_lora_monitoring, stop_event, lora_stop_event, monitor_thread,
                 lora_monitor_thread, telemetry_callback, lora_data_queue,
                 lora_buffer, kind, nops, nspawn, sent, data, packet, file, df, hist>>

\* ------------------------------------------------------------ disconnect_lora_link
\* the with block (lines 172-176), after stop_lora_monitoring returned
DisconnectLoraClose(c) ==
  /\ pc[c] = "dl_close"
  /\ CanAcquire(lora_lock, c)
  /\ handles' = Closed(handles, lora_port)
  /\ IF IsOpen(lora_port)
     THEN /\ lora_buffer' = <<>>
          /\ hist' = [hist EXCEPT !.lora_text = <<>>, !.carry = <<>>,
                                  !.session_base = Len(hist.emitted)]
     ELSE UNCHANGED <<lora_buffer, hist>>
  /\ pc' = [pc EXCEPT ![c] = "idle"]
  /\ ret' = [ret EXCEPT ![c] = Result("disconnect_lora_link", TRUE)]
  /\ loc' = [loc EXCEPT ![c] = NoLocals]
  /\ UNCHANGED <<device_port, lora_port, device_lock, lora_lock, is_monitoring,
                 is_lora_monitoring, stop_event, lora_stop_event, monitor_thread,
                 lora_monitor_thread, telemetry_callback, lora_data_queue, kind,
                 nops, nspawn, sent, data, packet, file, df>>

\* ------------------------------------------------------------ threads
\* Thread(target=...).start(): the next thread id
NewThread == NumCallers + nspawn + 1

\* A thread that may stay where it is for longer than any timeout: waiting
\* for the lock while connect_lora_link opens the port under it (the open has
\* no time bound), or inside the caller-supplied callback. Every other step
\* of a monitor loop takes a bounded time (the sleeps are at most 1 s, the
\* reads return what is already there).
Blocked(t) ==
  IF pc[t] = "lm_acquire"
  THEN IF lora_lock \in Callers THEN pc[lora_lock] = "cl_open" ELSE FALSE
  ELSE pc[t] = "tm_callback"

\* "if thread and thread.is_alive(): thread.join(timeout=2.0)" returns when
\* there is no live thread, when the thread has ended, or after the timeout
JoinReturns_Mutant(thread) == TRUE
JoinReturns(thread) ==
  IF thread = None THEN TRUE ELSE (~Alive(thread) \/ Blocked(thread))

\* ------------------------------------------------------------ start_lora_monitoring
\* the return of start_lora_monitoring, to connect_lora_link when that called it
\* (which then leaves its with block and returns True); pcs is pc with the
\* changes the step made to other threads
StartLoraReturn(c, pcs) ==
  /\ pc' = [pcs EXCEPT ![c] = "idle"]
  /\ loc' = [loc EXCEPT ![c] = NoLocals]
  /\ IF loc[c].nested = "connect_lora_link"
     THEN /\ lora_lock' = None
          /\ ret' = [ret EXCEPT ![c] = Result("connect_lora_link", TRUE)]
     ELSE /\ ret' = [ret EXCEPT ![c] = Result("start_lora_monitoring", TRUE)]
          /\ UNCHANGED lora_lock

\* "if self.is_lora_monitoring: return"
StartLoraCheck(c) ==
  /\ pc[c] = "sl_check"
  /\ IF is_lora_monitoring
     THEN StartLoraReturn(c, pc)
     ELSE /\ pc' = [pc EXCEPT ![c] = "sl_set"]
          /\ UNCHANGED <<loc, lora_lock, ret>>
  /\ UNCHANGED <<handles, device_port, lora_port, device_lock, is_monitoring,
                 is_lora_monitoring, stop_event, lora_stop_event, monitor_thread,
                 lora_monitor_thread, telemetry_callback, lora_data_queue,
                 lora_buffer, kind, nops, nspawn, sent, data, packet, file, df, hist>>

\* "self.is_lora_monitoring = True"
StartLoraSet(c) ==
  /\ pc[c] = "sl_set"
  /\ is_lora_monitoring' = TRUE
  /\ pc' = [pc EXCEPT ![c] = "sl_clear"]
  /\ UNCHANGED <<handles, device_port, lora_port, device_lock, lora_lock,
                 is_monitoring, stop_event, lora_stop_event, monitor_thread,
                 lora_monitor_thread, telemetry_callback, lora_data_queue,
                 lora_buffer, kind, loc, ret, nops, nspawn, sent, data, packet, file, df, hist>>

\* "self.lora_stop_event.clear()"
StartLoraClear(c) ==
  /\ pc[c] = "sl_clear"
  /\ lora_stop_event' = FALSE
  /\ pc' = [pc EXCEPT ![c] = "sl_spawn"]
  /\ UNCHANGED <<handles, device_port, lora_port, device_lock, lora_lock,
                 is_monitoring, is_lora_monitoring, stop_event, monitor_thread,
                 lora_monitor_thread, telemetry_callback, lora_data_queue,
                 lora_buffer, kind, loc, ret, nops, nspawn, sent, data, packet, file, df, hist>>

\* the Thread is created, stored and started (lines 251-256)
StartLoraSpawn(c) ==
  /\ pc[c] = "sl_spawn"
  /\ nspawn < MaxSpawn
  /\ lora_monitor_thread' = NewThread
  /\ kind' = [kind EXCEPT ![NewThread] = "lora"]
  /\ nspawn' = nspawn + 1
  /\ StartLoraReturn(c, [pc EXCEPT ![NewThread] = "lm_top"])
  /\ UNCHANGED <<handles, device_port, lora_port, device_lock, is_monitoring,
                 is_lora_monitoring, stop_event, lora_stop_event, monitor_thread,
                 telemetry_callback, lora_data_queue, lora_buffer, nops, sent, data, packet, file, df, hist>>

\* ------------------------------------------------------------ stop_lora_monitoring
\* the return of stop_lora_monitoring, to disconnect_lora_link or __del__
\* when they called it
StopLoraReturn(c) ==
  /\ hist' = [hist EXCEPT !.lora_stopped =
                              ~\E d \in Callers : pc[d] \in LoraStartPcs]
  /\ IF loc[c].nested = "disconnect_lora_link"
     THEN /\ pc' = [pc EXCEPT ![c] = "dl_close"]
          /\ UNCHANGED <<loc, ret>>
     ELSE IF loc[c].nested = "teardown"
     THEN \* __del__ goes on with disconnect_device
          /\ pc' = [pc EXCEPT ![c] = "dd_close"]
          /\ UNCHANGED <<loc, ret>>
     ELSE /\ pc' = [pc EXCEPT ![c] = "idle"]
          /\ loc' = [loc EXCEPT ![c] = NoLocals]
          /\ ret' = [ret EXCEPT ![c] = Result("stop_lora_monitoring", TRUE)]

\* "if not self.is_lora_monitoring: return"
StopLoraCheck(c) ==
  /\ pc[c] = "xl_check"
  /\ IF ~is_lora_monitoring
     THEN StopLoraReturn(c)
     ELSE /\ pc' = [pc EXCEPT ![c] = "xl_set"]
          /\ UNCHANGED <<loc, ret, hist>>
  /\ UNCHANGED <<handles, device_port, lora_port, device_lock, lora_lock,
                 is_monitoring, is_lora_monitoring, stop_event, lora_stop_event,
                 monitor_thread, lora_monitor_thread, telemetry_callback,
                 lora_data_queue, lora_buffer, kind, nops, nspawn, sent, data, packet, file, df>>

\* "self.is_lora_monitoring = False"
StopLoraSet(c) ==
  /\ pc[c] = "xl_set"
  /\ is_lora_monitoring' = FALSE
  /\ pc' = [pc EXCEPT ![c] = "xl_event"]
  /\ UNCHANGED <<handles, device_port, lora_port, device_lock, lora_lock,
                 is_monitoring, stop_event, lora_stop_event, monitor_thread,
                 lora_monitor_thread, telemetry_callback, lora_data_queue,
                 lora_buffer, kind, loc, ret, nops, nspawn, sent, data, packet, file, df, hist>>

\* "self.lora_stop_event.set()"
StopLoraEvent(c) ==
  /\ pc[c] = "xl_event"
  /\ lora_stop_event' = TRUE
  /\ pc' = [pc EXCEPT ![c] = "xl_join"]
  /\ UNCHANGED <<handles, device_port, lora_port, device_lock, lora_lock,
                 is_monitoring, is_lora_monitoring, stop_event, monitor_thread,
                 lora_monitor_thread, telemetry_callback, lora_data_queue,
                 lora_buffer, kind, loc, ret, nops, nspawn, sent, data, packet, file, df, hist>>

\* the join of lines 268-269 and the return
StopLoraJoin(c) ==
  /\ pc[c] = "xl_join"
  /\ JoinReturns(lora_monitor_thread)
  /\ StopLoraReturn(c)
  /\ UNCHANGED <<handles, device_port, lora_port, device_lock, lora_lock,
                 is_monitoring, is_lora_monitoring, stop_event, lora_stop_event,
                 monitor_thread, lora_monitor_thread, telemetry_callback,
                 lora_data_queue, lora_buffer, kind, nops, nspawn, sent, data, packet, file, df>>

\* ------------------------------------------------------------ start_telemetry_monitoring
\* "self.telemetry_callback = callback; self.is_monitoring = True"
StartTeleSet(c) ==
  /\ pc[c] = "st_set"
  /\ telemetry_callback' = TRUE
  /\ is_monitoring' = TRUE
  /\ pc' = [pc EXCEPT ![c] = "st_clear"]
  /\ UNCHANGED <<handles, device_port, lora_port, device_lock, lora_lock,
                 is_lora_monitoring, stop_event, lora_stop_event, monitor_thread,
                 lora_monitor_thread, lora_data_queue, lora_buffer, kind, loc, ret,
                 nops, nspawn, sent, data, packet, file, df, hist>>

\* "self.stop_event.clear()"
StartTeleClear_Mutant(c) ==
  /\ pc[c] = "st_clear"
  /\ pc' = [pc EXCEPT ![c] = "st_spawn"]
  /\ UNCHANGED <<handles, device_port, lora_port, device_lock, lora_lock,
                 is_monitoring, is_lora_monitoring, stop_event, lora_stop_event,
                 monitor_thread, lora_monitor_thread, telemetry_callback,
                 lora_data_queue, lora_buffer, kind, loc, ret, nops, nspawn, sent, data, packet, file, df,
                 hist>>
StartTeleClear(c) ==
  /\ pc[c] = "st_clear"
  /\ stop_event' = FALSE
  /\ pc' = [pc EXCEPT ![c] = "st_spawn"]
  /\ UNCHANGED <<handles, device_port, lora_port, device_lock, lora_lock,
                 is_monitoring, is_lora_monitoring, lora_stop_event, monitor_thread,
                 lora_monitor_thread, telemetry_callback, lora_data_queue,
                 lora_buffer, kind, loc, ret, nops, nspawn, sent, data, packet, file, df, hist>>

\* the Thread is created, stored and started (lines 431-436)
StartTeleSpawn(c) ==
  /\ pc[c] = "st_spawn"
  /\ nspawn < MaxSpawn
  /\ monitor_thread' = NewThread
  /\ kind' = [kind EXCEPT ![NewThread] = "tele"]
  /\ nspawn' = nspawn + 1
  /\ pc' = [pc EXCEPT ![c] = "idle", ![NewThread] = "tm_top"]
  /\ loc' = [loc EXCEPT ![c] = NoLocals]
  /\ ret' = [ret EXCEPT ![c] = Result("start_telemetry_monitoring", TRUE)]
  /\ UNCHANGED <<handles, device_port, lora_port, device_lock, lora_lock,
                 is_monitoring, is_lora_monitoring, stop_event, lora_stop_event,
                 lora_monitor_thread, telemetry_callback, lora_data_queue,
                 lora_buffer, nops, sent, data, packet, file, df, hist>>

\* ------------------------------------------------------------ stop_telemetry_monitoring
\* "self.is_monitoring = False"
StopTeleSet(c) ==
  /\ pc[c] = "xt_set"
  /\ is_monitoring' = FALSE
  /\ pc' = [pc EXCEPT ![c] = "xt_event"]
  /\ UNCHANGED <<handles, device_port, lora_port, device_lock, lora_lock,
                 is_lora_monitoring, stop_event, lora_stop_event, monitor_thread,
                 lora_monitor_thread, telemetry_callback, lora_data_queue,
                 lora_buffer, kind, loc, ret, nops, nspawn, sent, data, packet, file, df, hist>>

\* "self.stop_event.set()"
StopTeleEvent(c) ==
  /\ pc[c] = "xt_event"
  /\ stop_event' = TRUE
  /\ pc' = [pc EXCEPT ![c] = "xt_join"]
  /\ UNCHANGED <<handles, device_port, lora_port, device_lock, lora_lock,
                 is_monitoring, is_lora_monitoring, lora_stop_event, monitor_thread,
                 lora_monitor_thread, telemetry_callback, lora_data_queue,
                 lora_buffer, kind, loc, ret, nops, nspawn, sent, data, packet, file, df, hist>>

\* the join of lines 445-446 and the return
StopTeleJoin(c) ==
  /\ pc[c] = "xt_join"
  /\ JoinReturns(monitor_thread)
  /\ hist' = [hist EXCEPT !.tele_stopped =
                              ~\E d \in Callers : pc[d] \in TeleStartPcs]
  /\ IF loc[c].nested = "teardown"
     THEN \* __del__ goes on with stop_lora_monitoring
          /\ pc' = [pc EXCEPT ![c] = "xl_check"]
          /\ UNCHANGED <<loc, ret>>
     ELSE /\ pc' = [pc EXCEPT ![c] = "idle"]
          /\ loc' = [loc EXCEPT ![c] = NoLocals]
          /\ ret' = [ret EXCEPT ![c] = Result("stop_telemetry_monitoring", TRUE)]
  /\ UNCHANGED <<handles, device_port, lora_port, device_lock, lora_lock,
                 is_monitoring, is_lora_monitoring, stop_event, lora_stop_event,
                 monitor_thread, lora_monitor_thread, telemetry_callback,
                 lora_data_queue, lora_buffer, kind, nops, nspawn, sent, data, packet, file, df>>

\* ------------------------------------------------------------ send_command
\* str.upper() of one code point below 256: a sequence, as the upper case
\* of U+00DF is "SS" (U+00B5 and U+00FF have theirs above 255)
Upper(ch) ==
  IF ch \in 97..122 \/ (ch \in 224..254 /\ ch # 247) THEN <<ch - 32>>
  ELSE IF ch = 223 THEN <<83, 83>>
  ELSE IF ch = 181 THEN <<924>>
  ELSE IF ch = 255 THEN <<376>>
  ELSE <<ch>>

\* line.upper()
RECURSIVE UpperText(_)
UpperText(s) == IF s = <<>> THEN <<>> ELSE Upper(Head(s)) \o UpperText(Tail(s))

\* sub in s
Contains(s, sub) ==
  \E i \in 1..(Len(s) - Len(sub) + 1) : SubSeq(s, i, i + Len(sub) - 1) = sub

\* ['OK', 'ERROR', 'DONE', 'FAIL', 'SUCCESS']
Indicators ==
  { <<79, 75>>, <<69, 82, 82, 79, 82>>, <<68, 79, 78, 69>>, <<70, 65, 73, 76>>,
    <<83, 85, 67, 67, 69, 83, 83>> }

\* any(indicator in line.upper() for indicator in [...])
HasIndicator_Mutant(line) == \E ind \in Indicators : Contains(line, ind)
HasIndicator(line) == \E ind \in Indicators : Contains(UpperText(line), ind)

\* '\n'.join(lines)
RECURSIVE JoinLines(_)
JoinLines(lines) ==
  IF lines = <<>> THEN <<>>
  ELSE IF Len(lines) = 1 THEN lines[1]
  ELSE lines[1] \o <<LF>> \o JoinLines(Tail(lines))

\* "while '\n' in partial_line" (lines 215-226): the complete lines of
\* partial_line are appended to response_lines until one holds an indicator
RECURSIVE ScanResponse(_, _)
ScanResponse(partial_line, response_lines) ==
  IF ~HasLF(partial_line)
  THEN [done |-> FALSE, partial_line |-> partial_line, response_lines |-> response_lines]
  ELSE LET line == Strip(Split1(partial_line)[1])
           rest == Split1(partial_line)[2]
       IN IF line = <<>> THEN ScanResponse(rest, response_lines)
          ELSE IF HasIndicator(line)
          THEN [done |-> TRUE, partial_line |-> rest,
                response_lines |-> Append(response_lines, line)]
          ELSE ScanResponse(rest, Append(response_lines, line))

\* the lock of the channel a send_command call uses
ChannelLock(use_lora) == IF use_lora THEN lora_lock ELSE device_lock

\* the channel's lock after the step: held by who, the other lock unchanged
SetChannelLock(use_lora, who) ==
  IF use_lora THEN lora_lock' = who /\ UNCHANGED device_lock
  ELSE device_lock' = who /\ UNCHANGED lora_lock

\* send_command returns response (None is ok = FALSE)
SendCommandReturn(c, ok, text, why, received) ==
  /\ pc' = [pc EXCEPT ![c] = "idle"]
  /\ loc' = [loc EXCEPT ![c] = NoLocals]
  /\ ret' = [ret EXCEPT ![c] = [op |-> "send_command", ok |-> ok, text |-> text,
                                why |-> why, received |-> received]]

\* "port = self.lora_port if use_lora else self.device_port" (line 181)
SendCommandCapture(c) ==
  /\ pc[c] = "sc_capture"
  /\ loc' = [loc EXCEPT ![c].h = IF loc[c].use_lora THEN lora_port ELSE device_port]
  /\ pc' = [pc EXCEPT ![c] = "sc_lock"]
  /\ UNCHANGED <<handles, device_port, lora_port, device_lock, lora_lock,
                 is_monitoring, is_lora_monitoring, stop_event, lora_stop_event,
                 monitor_thread, lora_monitor_thread, telemetry_callback,
                 lora_data_queue, lora_buffer, kind, ret, nops, nspawn, sent, data, packet, file, df, hist>>

\* "with lock:" up to the flush (lines 184-197): not connected returns None;
\* the input buffer is reset, the command written and flushed (a write that
\* raises ends the call with None)
SendCommandWrite(c) ==
  /\ pc[c] = "sc_lock"
  /\ CanAcquire(ChannelLock(loc[c].use_lora), c)
  /\ IF ~IsOpen(loc[c].h)
     THEN /\ SendCommandReturn(c, FALSE, <<>>, "not_connected", <<>>)
          /\ UNCHANGED <<handles, device_lock, lora_lock, hist>>
     ELSE /\ handles' = [handles EXCEPT ![loc[c].h].rx = <<>>]
          /\ \E written \in BOOLEAN :
               IF ~written
               THEN /\ SendCommandReturn(c, FALSE, <<>>, "exception", <<>>)
                    /\ UNCHANGED <<device_lock, lora_lock, hist>>
               ELSE /\ SetChannelLock(loc[c].use_lora, c)
                    /\ hist' = IF loc[c].use_lora
                               THEN [hist EXCEPT !.lora_cmd_on = loc[c].h] ELSE hist
                    /\ pc' = [pc EXCEPT ![c] = IF loc[c].use_lora THEN "sc_flushed"
                                               ELSE "sc_wait"]
                    /\ loc' = [loc EXCEPT ![c].partial_line = <<>>,
                                          ![c].response_lines = <<>>]
                    /\ UNCHANGED ret
  /\ UNCHANGED <<device_port, lora_port, is_monitoring, is_lora_monitoring,
                 stop_event, lora_stop_event, monitor_thread, lora_monitor_thread,
                 telemetry_callback, lora_data_queue, lora_buffer, kind, nops,
                 nspawn, sent, data, packet, file, df>>

\* "if use_lora: return None" (lines 199-201), which leaves the with block
SendCommandLoraReturn(c) ==
  /\ pc[c] = "sc_flushed"
  /\ SendCommandReturn(c, FALSE, <<>>, "lora_sent", <<>>)
  /\ SetChannelLock(loc[c].use_lora, None)
  /\ UNCHANGED <<handles, device_port, lora_port, is_monitoring, is_lora_monitoring,
                 stop_event, lora_stop_event, monitor_thread, lora_monitor_thread,
                 telemetry_callback, lora_data_queue, lora_buffer, kind, nops,
                 nspawn, sent, data, packet, file, df, hist>>

\* one iteration of the wait loop that finds data (lines 210-226)
SendCommandPoll(c) ==
  /\ pc[c] = "sc_wait"
  /\ InWaiting(loc[c].h) > 0
  /\ LET r == PortRead(loc[c].h, InWaiting(loc[c].h))
         scan == ScanResponse(loc[c].partial_line \o Decode(r[1]),
                              loc[c].response_lines)
         received == loc[c].received \o Decode(r[1])
     IN /\ handles' = r[2]
        /\ IF scan.done
           THEN /\ SendCommandReturn(c, TRUE, JoinLines(scan.response_lines),
                                     "marker", received)
                /\ SetChannelLock(loc[c].use_lora, None)
           ELSE /\ loc' = [loc EXCEPT ![c].partial_line = scan.partial_line,
                                      ![c].response_lines = scan.response_lines,
                                      ![c].received = received]
                /\ UNCHANGED <<pc, ret, device_lock, lora_lock>>
  /\ UNCHANGED <<device_port, lora_port, is_monitoring, is_lora_monitoring,
                 stop_event, lora_stop_event, monitor_thread, lora_monitor_thread,
                 telemetry_callback, lora_data_queue, lora_buffer, kind, nops,
                 nspawn, sent, data, packet, file, df, hist>>

\* the 5 s are over (lines 230-237)
SendCommandTimeout(c) ==
  /\ pc[c] = "sc_wait"
  /\ LET rest == Strip(loc[c].partial_line)
         response_lines == IF rest # <<>> THEN Append(loc[c].response_lines, rest)
                           ELSE loc[c].response_lines
     IN SendCommandReturn(c, response_lines # <<>>, JoinLines(response_lines),
                          "timeout", loc[c].received)
  /\ SetChannelLock(loc[c].use_lora, None)
  /\ UNCHANGED <<handles, device_port, lora_port, is_monitoring, is_lora_monitoring,
                 stop_event, lora_stop_event, monitor_thread, lora_monitor_thread,
                 telemetry_callback, lora_data_queue, lora_buffer, kind, nops,
                 nspawn, sent, data, packet, file, df, hist>>

\* ------------------------------------------------------------ _telemetry_monitor_loop
\* the port the loop reads: the device port when open, else the LoRa port
\* when open (lines 457-460)
TelemetryPort ==
  IF IsOpen(device_port) THEN device_port
  ELSE IF IsOpen(lora_port) THEN lora_port ELSE None

\* json.loads(line) followed by TelemetryData(**dict), for text without
\* quotes and digits: only an object without members parses, and every field
\* of TelemetryData is optional
ParsesAsTelemetry(line) ==
  \A i \in 2..(Len(line) - 1) : line[i] \in {9, 10, 13, 32}

\* line.startswith('{') and line.endswith('}') and the parse succeeds
IsTelemetryLine(line) ==
  /\ line # <<>>
  /\ line[1] = 123
  /\ line[Len(line)] = 125
  /\ ParsesAsTelemetry(line)

\* _read_telemetry_data finds a telemetry record in what it read (lines 482-492)
HasTelemetry(raw_data) ==
  LET lines == SplitLines(raw_data)
  IN \E i \in 1..Len(lines) : IsTelemetryLine(Strip(lines[i]))

TeleLoopExit(t) ==
  /\ t \in TeleMonitors /\ pc[t] = "tm_top"
  /\ ~(is_monitoring /\ ~stop_event)
  /\ pc' = [pc EXCEPT ![t] = "dead"]
  /\ UNCHANGED <<handles, conn_vars, lora_lock, lora_data_queue, lora_buffer, loc,
                 sent, data, packet, file, df, hist>>

\* one round of the loop that finds bytes waiting (lines 452-463 and 472-496):
\* _read_telemetry_data reads them all, without taking a lock
TeleRead(t) ==
  /\ t \in TeleMonitors /\ pc[t] = "tm_top"
  /\ is_monitoring /\ ~stop_event
  /\ TelemetryPort # None
  /\ InWaiting(TelemetryPort) > 0
  /\ LET r == PortRead(TelemetryPort, InWaiting(TelemetryPort))
     IN /\ handles' = r[2]
        /\ pc' = [pc EXCEPT ![t] = IF HasTelemetry(Decode(r[1])) /\ telemetry_callback
                                   THEN "tm_callback" ELSE "tm_top"]
        /\ hist' = [hist EXCEPT !.tele_text = @ \o Decode(r[1])]
  /\ UNCHANGED <<conn_vars, lora_lock, lora_data_queue, lora_buffer, loc, sent, data, packet, file, df>>

\* "self.telemetry_callback(data)"
TeleCallback(t) ==
  /\ t \in TeleMonitors /\ pc[t] = "tm_callback"
  /\ hist' = [hist EXCEPT !.callbacks = @ + 1]
  /\ pc' = [pc EXCEPT ![t] = "tm_top"]
  /\ UNCHANGED <<handles, conn_vars, lora_lock, lora_data_queue, lora_buffer, loc,
                 sent, data, packet, file, df>>

\* ------------------------------------------------------------ the service
\* what a peer sends in the service specification: the line "{}"
SvcChunks == { <<123, 125, LF>> }

SvcPeerSends ==
  \E h \in 1..Len(handles), bytes \in SvcChunks :
    /\ sent < SvcMaxSent
    /\ Len(handles[h].rx) + Len(bytes) <= SvcRxMax
    /\ PeerSends(h, bytes)

\* The queue cannot fill up within SvcMaxSent chunks (SvcQueueNeverFull), so
\* the eviction steps of _process_lora_buffer are no part of this
\* specification; SpecQueue has them.
Next ==
  \/ \E c \in Callers, method \in Methods, port \in PortArgs, use_lora \in BOOLEAN :
       Call(c, method, port, use_lora)
  \/ \E c \in Callers : ConnectDeviceBegin(c)
  \/ \E c \in Callers : ConnectDeviceOpen(c)
  \/ \E c \in Callers : ConnectLoraBegin(c)
  \/ \E c \in Callers : ConnectLoraOpen(c)
  \/ \E c \in Callers : DisconnectDevice(c)
  \/ \E c \in Callers : DisconnectLoraClose(c)
  \/ \E c \in Callers : StartLoraCheck(c)
  \/ \E c \in Callers : StartLoraSet(c)
  \/ \E c \in Callers : StartLoraClear(c)
  \/ \E c \in Callers : StartLoraSpawn(c)
  \/ \E c \in Callers : StopLoraCheck(c)
  \/ \E c \in Callers : StopLoraSet(c)
  \/ \E c \in Callers : StopLoraEvent(c)
  \/ \E c \in Callers : StopLoraJoin(c)
  \/ \E c \in Callers : StartTeleSet(c)
  \/ \E c \in Callers : StartTeleClear(c)
  \/ \E c \in Callers : StartTeleSpawn(c)
  \/ \E c \in Callers : StopTeleSet(c)
  \/ \E c \in Callers : StopTeleEvent(c)
  \/ \E c \in Callers : StopTeleJoin(c)
  \/ \E c \in Callers : SendCommandCapture(c)
  \/ \E c \in Callers : SendCommandWrite(c)
  \/ \E c \in Callers : SendCommandLoraReturn(c)
  \/ \E c \in Callers : SendCommandPoll(c)
  \/ \E c \in Callers : SendCommandTimeout(c)
  \/ \E t \in Monitors : LoraLoopExit(t)
  \/ \E t \in Monitors : LoraLoopPoll(t)
  \/ \E t \in Monitors : LoraRead(t)
  \/ \E t \in Monitors : LoraReadError(t)
  \/ \E t \in Monitors : ProcessDone(t)
  \/ \E t \in Monitors : ProcessLine(t)
  \/ \E t \in Monitors : TeleLoopExit(t)
  \/ \E t \in Monitors : TeleRead(t)
  \/ \E t \in Monitors : TeleCallback(t)
  \/ SvcPeerSends

Spec == Init /\ [][Next]_vars

\* the queue stays below its capacity in Spec
SvcQueueNeverFull == ~QueueFull(lora_data_queue)

\* ------------------------------------------------------------ the LoRa stream
\* The service after connect_lora_link("COM4") returned True on a fresh
\* service: the port is open and the monitor thread it started is at its loop
\* head (SvcReachesConnected checks that Spec reaches this state).
FirstMonitor == NumCallers + 1

Connected ==
  /\ handles = <<[phys |-> "COM4", open |-> TRUE, rx |-> <<>>]>>
  /\ device_port = None
  /\ lora_port = 1
  /\ device_lock = None
  /\ lora_lock = None
  /\ is_monitoring = FALSE
  /\ is_lora_monitoring = TRUE
  /\ stop_event = FALSE
  /\ lora_stop_event = FALSE
  /\ monitor_thread = None
  /\ lora_monitor_thread = FirstMonitor
  /\ telemetry_callback = FALSE
  /\ lora_data_queue = <<>>
  /\ lora_buffer = <<>>
  /\ pc = [t \in Threads |-> IF t \in Callers THEN "idle"
                             ELSE IF t = FirstMonitor THEN "lm_top" ELSE "unborn"]
  /\ kind = [t \in Monitors |-> IF t = FirstMonitor THEN "lora" ELSE "none"]
  /\ loc = [t \in Threads |-> NoLocals]
  /\ ret = [c \in Callers |-> IF c = 1 THEN Result("connect_lora_link", TRUE)
                              ELSE NoRet]
  /\ nops = 1
  /\ nspawn = 1
  /\ sent = 0
  /\ data = <<>>
  /\ packet = NoPacket
  /\ file = NoFile
  /\ df = NoTable
  /\ hist = HistInit

\* --- line framing: the link sends any bytes, one at a time or as a burst,
\* and the monitor reads whatever has arrived, so every split of the stream
\* into chunks occurs.
\* bytes the link sends: 'a', '\r', '\n', and the two bytes of U+00E9
FrameBytes == {97, 13, LF, 195, 169}
\* eleven lines "a\n" arriving together: more than one drain handles
Burst == [i \in 1..(2 * (MaxLinesPerProcess + 1)) |-> IF i % 2 = 1 THEN 97 ELSE LF]
FrameChunks == {<<b>> : b \in FrameBytes} \cup {Burst}
\* chunks the link sends in the framing specification
FrameMaxSent == 4

\* (a burst arrives on an empty input buffer: one read returns at most one)
FramePeerSends ==
  \E bytes \in FrameChunks :
    /\ sent < FrameMaxSent
    /\ bytes = Burst => handles[lora_port].rx = <<>>
    /\ PeerSends(lora_port, bytes)

NextFrame ==
  \/ \E t \in Monitors : LoraLoopPoll(t)
  \/ \E t \in Monitors : LoraRead(t)
  \/ \E t \in Monitors : ProcessDone(t)
  \/ \E t \in Monitors : ProcessLine(t)
  \/ FramePeerSends

SpecFrame == Connected /\ [][NextFrame]_vars

\* --- the queue at capacity: the link sends a long stream of short lines
\* lines the link sends in the queue specification
QueueMaxSent == 104
\* the k-th line of that stream: the third one is blank
QueueChunk(k) == IF k = 3 THEN <<13, LF>> ELSE <<97, LF>>

QueuePeerSends ==
  /\ sent < QueueMaxSent
  /\ handles[lora_port].rx = <<>>
  /\ PeerSends(lora_port, QueueChunk(sent + 1))

NextQueue ==
  \/ \E t \in Monitors : LoraLoopPoll(t)
  \/ \E t \in Monitors : LoraRead(t)
  \/ \E t \in Monitors : ProcessDone(t)
  \/ \E t \in Monitors : ProcessLine(t)
  \/ \E t \in Monitors : EvictOne(t)
  \/ \E t \in Monitors : PutAgain(t)
  \/ \E t \in Monitors : PutDirect(t)
  \/ GetLoraData
  \/ QueuePeerSends

SpecQueue == Connected /\ [][NextQueue]_vars

\* Spec reaches the state SpecFrame and SpecQueue begin in
SvcNeverConnected == ~Connected

\* ------------------------------------------------------------ monitoring on and off
\* One caller starts and stops the two kinds of monitoring on a fresh
\* service, one call after the other; no port is open.
MonitoringMethods ==
  {"start_lora_monitoring", "stop_lora_monitoring",
   "start_telemetry_monitoring", "stop_telemetry_monitoring"}

NextStop ==
  \/ \E method \in MonitoringMethods : Call(1, method, NoPort, FALSE)
  \/ \E c \in Callers : StartLoraCheck(c)
  \/ \E c \in Callers : StartLoraSet(c)
  \/ \E c \in Callers : StartLoraClear(c)
  \/ \E c \in Callers : StartLoraSpawn(c)
  \/ \E c \in Callers : StopLoraCheck(c)
  \/ \E c \in Callers : StopLoraSet(c)
  \/ \E c \in Callers : StopLoraEvent(c)
  \/ \E c \in Callers : StopLoraJoin(c)
  \/ \E c \in Callers : StartTeleSet(c)
  \/ \E c \in Callers : StartTeleClear(c)
  \/ \E c \in Callers : StartTeleSpawn(c)
  \/ \E c \in Callers : StopTeleSet(c)
  \/ \E c \in Callers : StopTeleEvent(c)
  \/ \E c \in Callers : StopTeleJoin(c)
  \/ \E t \in Monitors : LoraLoopExit(t)
  \/ \E t \in Monitors : TeleLoopExit(t)

SpecStop == Init /\ [][NextStop]_vars

\* ------------------------------------------------------------ the telemetry stream
\* The service after connect_device("COM3") and
\* start_telemetry_monitoring(callback) returned on a fresh service.
TelemetryRunning ==
  /\ handles = <<[phys |-> "COM3", open |-> TRUE, rx |-> <<>>]>>
  /\ device_port = 1
  /\ lora_port = None
  /\ device_lock = None
  /\ lora_lock = None
  /\ is_monitoring = TRUE
  /\ is_lora_monitoring = FALSE
  /\ stop_event = FALSE
  /\ lora_stop_event = FALSE
  /\ monitor_thread = FirstMonitor
  /\ lora_monitor_thread = None
  /\ telemetry_callback = TRUE
  /\ lora_data_queue = <<>>
  /\ lora_buffer = <<>>
  /\ pc = [t \in Threads |-> IF t \in Callers THEN "idle"
                             ELSE IF t = FirstMonitor THEN "tm_top" ELSE "unborn"]
  /\ kind = [t \in Monitors |-> IF t = FirstMonitor THEN "tele" ELSE "none"]
  /\ loc = [t \in Threads |-> NoLocals]
  /\ ret = [c \in Callers |-> IF c = 1 THEN Result("start_telemetry_monitoring", TRUE)
                              ELSE NoRet]
  /\ nops = 2
  /\ nspawn = 1
  /\ sent = 0
  /\ data = <<>>
  /\ packet = NoPacket
  /\ file = NoFile
  /\ df = NoTable
  /\ hist = HistInit

\* Spec reaches that state
SvcNeverTelemetryRunning == ~TelemetryRunning

\* what the device sends: '{', '}', ' ', 'x', '\n' one at a time, and two
\* records at once, "{}\n{}\n"
TeleBytes == {123, 125, 32, 120, LF}
TeleChunks == {<<b>> : b \in TeleBytes} \cup {<<123, 125, LF, 123, 125, LF>>}
\* chunks the device sends in the telemetry specification
TeleMaxSent == 4

TelePeerSends ==
  \E bytes \in TeleChunks :
    /\ sent < TeleMaxSent
    /\ PeerSends(device_port, bytes)

NextTele ==
  \/ \E t \in Monitors : TeleRead(t)
  \/ \E t \in Monitors : TeleCallback(t)
  \/ TelePeerSends

SpecTele == TelemetryRunning /\ [][NextTele]_vars

\* ------------------------------------------------------------ the command channel
\* The service after connect_device("COM3") returned True on a fresh service.
DeviceConnected ==
  /\ handles = <<[phys |-> "COM3", open |-> TRUE, rx |-> <<>>]>>
  /\ device_port = 1
  /\ lora_port = None
  /\ device_lock = None
  /\ lora_lock = None
  /\ is_monitoring = FALSE
  /\ is_lora_monitoring = FALSE
  /\ stop_event = FALSE
  /\ lora_stop_event = FALSE
  /\ monitor_thread = None
  /\ lora_monitor_thread = None
  /\ telemetry_callback = FALSE
  /\ lora_data_queue = <<>>
  /\ lora_buffer = <<>>
  /\ pc = [t \in Threads |-> IF t \in Callers THEN "idle" ELSE "unborn"]
  /\ kind = [t \in Monitors |-> "none"]
  /\ loc = [t \in Threads |-> NoLocals]
  /\ ret = [c \in Callers |-> IF c = 1 THEN Result("connect_device", TRUE) ELSE NoRet]
  /\ nops = 1
  /\ nspawn = 0
  /\ sent = 0
  /\ data = <<>>
  /\ packet = NoPacket
  /\ file = NoFile
  /\ df = NoTable
  /\ hist = HistInit

\* Spec reaches that state
SvcNeverDeviceConnected == ~DeviceConnected

\* what the device answers, byte by byte or two lines at once: 'o', 'K', 'x',
\* ' ', '\n', and "oK\nx\n"
CmdBytes == {111, 75, 120, 32, LF}
CmdChunks == {<<b>> : b \in CmdBytes} \cup {<<111, 75, LF, 120, LF>>}
\* chunks the device sends in the command specification
CmdMaxSent == 4

CmdPeerSends ==
  \E bytes \in CmdChunks :
    /\ sent < CmdMaxSent
    /\ PeerSends(device_port, bytes)

\* send_command calls on the device channel, and the device
NextCmd ==
  \/ \E c \in Callers : Call(c, "send_command", NoPort, FALSE)
  \/ \E c \in Callers : SendCommandCapture(c)
  \/ \E c \in Callers : SendCommandWrite(c)
  \/ \E c \in Callers : SendCommandPoll(c)
  \/ \E c \in Callers : SendCommandTimeout(c)
  \/ CmdPeerSends

SpecCmd == DeviceConnected /\ [][NextCmd]_vars

\* ------------------------------------------------------------ reference definitions
\* What the claims speak of, defined on the whole text and not by the code's loop.
SetMax(S) == CHOOSE x \in S : \A y \in S : y <= x
SetMin(S) == CHOOSE x \in S : \A y \in S : x <= y

\* s without leading and trailing whitespace
RefStrip(s) ==
  LET keep == {i \in 1..Len(s) : s[i] \notin Whitespace}
  IN IF keep = {} THEN <<>> ELSE SubSeq(s, SetMin(keep), SetMax(keep))

LFPositions(s) == {i \in 1..Len(s) : s[i] = LF}

\* the segment of s that the newline at position p terminates
SegmentBefore(s, p) ==
  LET before == {q \in LFPositions(s) : q < p}
      start == IF before = {} THEN 1 ELSE SetMax(before) + 1
  IN SubSeq(s, start, p - 1)

RECURSIVE RefLinesAt(_, _)
RefLinesAt(s, ps) ==
  IF ps = {} THEN <<>>
  ELSE LET p == SetMin(ps)
           line == RefStrip(SegmentBefore(s, p))
       IN (IF line = <<>> THEN <<>> ELSE <<line>>) \o RefLinesAt(s, ps \ {p})

\* the newline-terminated segments of s, stripped, the empty ones left out
RefLines(s) == RefLinesAt(s, LFPositions(s))

\* the text after the last newline of s
RefTail(s) ==
  IF LFPositions(s) = {} THEN s ELSE SubSeq(s, SetMax(LFPositions(s)) + 1, Len(s))

\* lines emitted since lora_buffer was last reset
SessionEmitted == SubSeq(hist.emitted, hist.session_base + 1, Len(hist.emitted))

\* pcs at which a LoRa monitor is inside _process_lora_buffer
ProcessPcs == {"pb_loop", "pb_evict", "pb_put_again", "pb_put_direct"}

\* the steps of _process_lora_buffer
ProcessStep(t) ==
  ProcessDone(t) \/ ProcessLine(t) \/ EvictOne(t) \/ PutAgain(t) \/ PutDirect(t)

\* s without its first n elements
Drop(s, n) == SubSeq(s, n + 1, Len(s))

\* a step that completes the enqueue of an item whose first put met a full queue
EnqueueAfterFull(t) ==
  /\ pc[t] \in {"pb_put_again", "pb_put_direct"}
  /\ pc'[t] = "pb_loop"

\* ------------------------------------------------------------ claims C1 - C6
\* a send_command call on the channel is inside its critical section: the
\* input is cleared and the command written, the call has not left the with block
InCriticalSection(c, use_lora) ==
  pc[c] \in {"sc_wait", "sc_flushed"} /\ loc[c].use_lora = use_lora

\* C1: on each channel at most one send_command call is inside its critical
\* section, and that call holds the channel's lock.
C1_Serialized ==
  \A use_lora \in BOOLEAN :
    /\ Cardinality({c \in Callers : InCriticalSection(c, use_lora)}) <= 1
    /\ \A c \in Callers :
         InCriticalSection(c, use_lora) => ChannelLock(use_lora) = c

\* one send_command waits for its response on the device channel while a
\* second call on the same channel waits for the lock
C1_Witness ==
  \E c, d \in Callers :
    /\ c # d
    /\ InCriticalSection(c, FALSE)
    /\ pc[d] = "sc_lock" /\ ~loc[d].use_lora /\ loc[d].h = loc[c].h

\* C2: a thread that reads a channel's transport holds that channel's lock;
\* so no telemetry read takes bytes from a transport while a send_command is
\* waiting for its response on it, nor from the LoRa transport while a LoRa
\* monitor is alive.
C2_LockedAccess ==
  [][\A t \in Monitors :
       TeleRead(t) =>
         /\ IF TelemetryPort = device_port THEN device_lock = t ELSE lora_lock = t
         /\ ~\E c \in Callers : pc[c] = "sc_wait" /\ loc[c].h = TelemetryPort
         /\ TelemetryPort = lora_port => ~\E m \in LoraMonitors : Alive(m)]_vars

\* C3: after a stop call returned and until monitoring is started again, no
\* monitor thread of that kind is alive, nothing is put on lora_data_queue
\* and the telemetry callback is not invoked.
C3_StoppedMeansExited ==
  /\ [](hist.lora_stopped => \A t \in LoraMonitors : ~Alive(t))
  /\ [](hist.tele_stopped => \A t \in TeleMonitors : ~Alive(t))
  /\ [][hist.lora_stopped => lora_data_queue' = lora_data_queue]_vars
  /\ [][hist.tele_stopped => hist'.callbacks = hist.callbacks]_vars

\* C4: at most one LoRa monitor thread and at most one telemetry monitor
\* thread are alive.
C4_OneMonitorPerKind ==
  /\ Cardinality({t \in LoraMonitors : Alive(t)}) <= 1
  /\ Cardinality({t \in TeleMonitors : Alive(t)}) <= 1

\* C5: no physical port has two open handles.
C5_OneHandlePerPort ==
  \A i, j \in 1..Len(handles) :
    (i # j /\ handles[i].open /\ handles[j].open) => handles[i].phys # handles[j].phys

\* the monitor threads that read the handle: LoRa monitors read the LoRa port,
\* telemetry monitors the port _telemetry_monitor_loop selects
Readers(h) ==
  {t \in LoraMonitors : h = lora_port} \cup {t \in TeleMonitors : h = TelemetryPort}

\* C6: when disconnect_device, disconnect_lora_link or the teardown closes an
\* open transport, no monitor thread that reads it is alive.
C6_StoppedBeforeClose ==
  [][/\ \A c \in Callers :
          (DisconnectDevice(c) /\ IsOpen(device_port)) =>
            \A t \in Readers(device_port) : ~Alive(t)
     /\ \A c \in Callers :
          (DisconnectLoraClose(c) /\ IsOpen(lora_port)) =>
            \A t \in Readers(lora_port) : ~Alive(t)]_vars

\* ------------------------------------------------------------ claims C7 - C10
\* C7: lora_data_queue never holds more than 100 items, and a monitor inside
\* _process_lora_buffer can always take its next step: no put or get of the
\* enqueue waits for a consumer.
C7_QueueBounded ==
  /\ Len(lora_data_queue) <= 100
  /\ \A t \in LoraMonitors : pc[t] \in ProcessPcs => ENABLED ProcessStep(t)

\* the queue is full and the monitor's put has just failed with queue.Full
C7_Witness ==
  /\ Len(lora_data_queue) = 100
  /\ \E t \in LoraMonitors : pc[t] = "pb_evict" /\ loc[t].i = 0

\* C8 as claimed: when the enqueue of an item that met a full queue completes,
\* the queue is the queue found full without its k oldest items, 1 <= k <= 5,
\* followed by the new item, also when a consumer dequeues during the eviction.
C8_Original ==
  [][\A t \in LoraMonitors :
       EnqueueAfterFull(t) =>
         \E k \in 1..5 :
           lora_data_queue' = Append(Drop(hist.full_q0, k), loc[t].item)]_vars

\* C8 amended: when that enqueue completes, the new item is the newest
\* element, the k >= 1 oldest items of the queue found full are gone and the
\* others are in their order; the monitor evicted at most five of the k (five
\* when no consumer took an item meanwhile, none only when consumers emptied
\* the queue), consumers took the rest; the size is at most 100.
C8_Amended ==
  [][\A t \in LoraMonitors :
       EnqueueAfterFull(t) =>
         LET k == hist.evicted + hist.taken
         IN /\ k >= 1
            /\ hist.evicted <= 5
            /\ hist.taken = 0 => hist.evicted = 5
            /\ hist.evicted = 0 => hist.taken = 100
            /\ Len(hist.full_q0) = 100
            /\ lora_data_queue' = Append(Drop(hist.full_q0, k), loc[t].item)
            /\ Len(lora_data_queue') <= 100]_vars

\* an enqueue after queue.Full has completed while a consumer took an item
\* during the eviction
C8_Witness ==
  /\ hist.evicted = 5 /\ hist.taken = 1
  /\ \E t \in LoraMonitors :
       /\ pc[t] = "pb_loop"
       /\ lora_data_queue # <<>>
       /\ lora_data_queue[Len(lora_data_queue)] = loc[t].item

\* C9: what consumers obtain through get_lora_data is a subsequence of the
\* lines in the order the monitor produced them from the bytes it read (that
\* order is the order of the text, C10): every queued item is an emitted
\* line, the queue is in emission order, and everything still queued was
\* emitted after the item the last get returned, so that successive gets
\* return strictly later lines.
C9_Order ==
  /\ \A i \in 1..Len(lora_data_queue) :
       LET item == lora_data_queue[i]
       IN /\ item.seq \in 1..Len(hist.emitted)
          /\ item.content = hist.emitted[item.seq]
          /\ item.seq > hist.last_got
  /\ \A i, j \in 1..Len(lora_data_queue) :
       i < j => lora_data_queue[i].seq < lora_data_queue[j].seq

\* a consumer got an item, later items were evicted, and the next item in
\* the queue is not the successor of the one it got
C9_Witness ==
  /\ hist.last_got > 0
  /\ hist.evicted > 0
  /\ lora_data_queue # <<>>
  /\ Head(lora_data_queue).seq > hist.last_got + 1

RECURSIVE AfterLF(_, _)
AfterLF(s, n) == IF n = 0 THEN s ELSE AfterLF(Split1(s)[2], n - 1)

\* C11: inside one call of _process_lora_buffer at most 10 segments have been
\* taken from the buffer and at most that many lines emitted, and the buffer
\* is what the call found, minus exactly the segments taken: what lies
\* beyond the cap stays, unchanged and in order.
C11_DrainCap ==
  \A t \in LoraMonitors :
    pc[t] \in ProcessPcs =>
      /\ loc[t].processed <= 10
      /\ Len(hist.emitted) - hist.drain_base <= loc[t].processed
      /\ Cardinality(LFPositions(hist.drain_buf)) >= loc[t].processed
      /\ lora_buffer = AfterLF(hist.drain_buf, loc[t].processed)

\* a call that found eleven complete lines has emitted ten, and the eleventh
\* is still in the buffer
C11_Witness ==
  \E t \in LoraMonitors :
    /\ pc[t] = "pb_loop"
    /\ Cardinality(LFPositions(hist.drain_buf)) > 10
    /\ Len(hist.emitted) - hist.drain_base = 10
    /\ lora_buffer = <<97, LF>>

\* lower case of an ASCII letter, any other code point as it is
RefFold(ch) == IF ch \in 65..90 THEN ch + 32 ELSE ch

\* the line contains one of OK, ERROR, DONE, FAIL, SUCCESS, whatever the case
\* of its letters
RefIsMarker(line) ==
  \E ind \in Indicators, i \in 1..Len(line) :
    /\ i + Len(ind) - 1 <= Len(line)
    /\ \A k \in 1..Len(ind) : RefFold(line[i + k - 1]) = RefFold(ind[k])

\* the positions of the marker lines among lines
RefMarkers(lines) == {k \in 1..Len(lines) : RefIsMarker(lines[k])}

\* the lines of the text and, if not blank, the fragment after its last newline
RefAccumulated(text) ==
  RefLines(text) \o
    (IF RefStrip(RefTail(text)) = <<>> THEN <<>> ELSE <<RefStrip(RefTail(text))>>)

C13_TimeoutReturnsText ==
  \A c \in Callers :
    (ret[c].op = "send_command" /\ ret[c].why = "timeout") =>
      /\ ret[c].ok
      /\ ret[c].text = JoinLines(RefAccumulated(ret[c].received))

\* the outcomes of send_command the claim names ("" for any other)
Outcome(r) ==
  IF r.op # "send_command" THEN ""
  ELSE IF r.why = "not_connected" THEN "NotConnected"
  ELSE IF r.why = "timeout" /\ r.received = <<>> THEN "Timeout"
  ELSE IF r.why \in {"marker", "lora_sent"} THEN "Success"
  ELSE ""

\* what the caller gets: None or a string
Returned(r) == IF r.ok THEN <<"str", r.text>> ELSE <<"None">>

\* C14: two send_command calls with different outcomes among NotConnected,
\* Timeout without data, and success (a LoRa write included) never return the
\* same value.
C14_Distinguishable ==
  \A c, d \in Callers :
    (Outcome(ret[c]) # "" /\ Outcome(ret[d]) # "" /\ Outcome(ret[c]) # Outcome(ret[d]))
      => Returned(ret[c]) # Returned(ret[d])

\* C15: a send_command on the LoRa channel returns None right after its
\* write, without waiting and without reading; and what the link sends after
\* the command is read by the LoRa monitor alone, which delivers it through
\* the queue: no other thread takes it from the transport.
C15_FireAndForget ==
  [][/\ \A c \in Callers :
          SendCommandLoraReturn(c) =>
            /\ handles' = handles
            /\ ~ret'[c].ok /\ ret'[c].why = "lora_sent"
     /\ \A c \in Callers : pc'[c] = "sc_wait" => ~loc'[c].use_lora
     /\ \A t \in Monitors :
          TeleRead(t) => TelemetryPort # hist.lora_cmd_on]_vars

\* C16: when a read of the LoRa monitor fails, an event is put on
\* lora_data_queue for the consumer, and the loop goes back to its head to
\* retry.
C16_ErrorEvent ==
  [][\A t \in Monitors :
       LoraReadError(t) =>
         /\ Len(lora_data_queue') = Len(lora_data_queue) + 1
         /\ pc'[t] = "lm_top"]_vars

\* C17: a connect call that ends at the discovery (no port given, no
\* matching device found) returns False and changes nothing: handles and
\* their state, both port attributes, buffer, queue, locks, monitoring flags
\* and threads are as before.
C17_NoDeviceNoChange ==
  [][\A c \in Callers :
       (pc[c] \in {"cd_lock", "cl_lock"} /\ pc'[c] = "idle") =>
         /\ loc[c].port = NoPort
         /\ ~ret'[c].ok /\ ret'[c].why = "no_device"
         /\ UNCHANGED <<handles, device_port, lora_port, device_lock, lora_lock,
                        lora_buffer, lora_data_queue, is_monitoring,
                        is_lora_monitoring, stop_event, lora_stop_event,
                        monitor_thread, lora_monitor_thread, kind, nspawn>>]_vars

\* connect_device() found no device while a device connection was open, and
\* that connection is still open
C17_Witness ==
  \E c \in Callers :
    /\ ret[c].op = "connect_device" /\ ret[c].why = "no_device"
    /\ IsOpen(device_port)

\* pcs at which a caller is inside stop_telemetry_monitoring
StopTelePcs == {"xt_set", "xt_event", "xt_join"}

\* C18: stop_lora_monitoring called while LoRa monitoring is off (never
\* started, or stopped before) returns at once and changes nothing; a step of
\* stop_telemetry_monitoring made when no telemetry thread was ever started
\* touches no port, no thread, no queue or buffer; a step of it made in the
\* state a stop leaves (flag off, event set) changes nothing at all; and
\* after a start call returned, also one that follows two stops, the thread
\* it created is alive and its loop condition holds.
C18_StopIdempotent ==
  /\ [][\A c \in Callers :
          (pc[c] = "xl_check" /\ ~is_lora_monitoring /\ pc'[c] # pc[c]) =>
            /\ pc'[c] = "idle"
            /\ UNCHANGED <<handles, device_port, lora_port, device_lock, lora_lock,
                           is_monitoring, is_lora_monitoring, stop_event,
                           lora_stop_event, monitor_thread, lora_monitor_thread,
                           kind, lora_data_queue, lora_buffer, nspawn>>]_vars
  /\ [][\A c \in Callers :
          (pc[c] \in StopTelePcs /\ TeleMonitors = {} /\ pc'[c] # pc[c]) =>
            UNCHANGED <<handles, device_port, lora_port, device_lock, lora_lock,
                        is_monitoring, is_lora_monitoring, lora_stop_event,
                        monitor_thread, lora_monitor_thread, kind,
                        lora_data_queue, lora_buffer, nspawn>>]_vars
  /\ [][\A c \in Callers :
          (pc[c] \in StopTelePcs /\ ~is_monitoring /\ stop_event /\ pc'[c] # pc[c]) =>
            UNCHANGED <<handles, device_port, lora_port, device_lock, lora_lock,
                        is_monitoring, is_lora_monitoring, stop_event,
                        lora_stop_event, monitor_thread, lora_monitor_thread,
                        kind, lora_data_queue, lora_buffer, nspawn>>]_vars
  /\ [](\A c \in Callers :
          (pc[c] = "idle" /\ ret[c].op = "start_lora_monitoring") =>
            /\ lora_monitor_thread # None
            /\ pc[lora_monitor_thread] = "lm_top"
            /\ is_lora_monitoring /\ ~lora_stop_event)
  /\ [](\A c \in Callers :
          (pc[c] = "idle" /\ ret[c].op = "start_telemetry_monitoring") =>
            /\ monitor_thread # None
            /\ pc[monitor_thread] = "tm_top"
            /\ is_monitoring /\ ~stop_event)

\* telemetry monitoring was stopped, stopped again, then started, and the
\* new thread runs
C18_Witness ==
  /\ "tele" \in hist.restop
  /\ pc[1] = "idle" /\ ret[1].op = "start_telemetry_monitoring"
  /\ monitor_thread # None /\ pc[monitor_thread] = "tm_top"
  /\ is_monitoring /\ ~stop_event

\* ------------------------------------------------------------ the packet decoder
\* longest input given to _parse_packet
MaxPacketLen == 36
\* byte values the inputs are made of
FillBytes == {0, 255}
MarkBytes == {1, 128}

\* n bytes, all fill but the one at position i (from 1), which is mark
Packet(n, fill, i, mark) == [k \in 1..n |-> IF k = i THEN mark ELSE fill]

PacketInputs ==
  {Packet(n, fill, i, mark) :
     n \in 0..MaxPacketLen, fill \in FillBytes, i \in 1..MaxPacketLen, mark \in MarkBytes}

\* a caller picks the bytes to decode. The parser keeps nothing between calls
\* of _parse_packet, so a behaviour decodes one input.
GivePacket ==
  /\ data = <<>>
  /\ packet = NoPacket
  /\ \E d \in PacketInputs : data' = d
  /\ packet' = NoPacket
  /\ UNCHANGED <<service_vars, file, df>>

\* "packet = self._parse_packet(packet_data)"
ParsePacketCall ==
  /\ packet = NoPacket
  /\ packet' = ParsePacket(data)
  /\ UNCHANGED <<service_vars, data, file, df>>

NextParse ==
  \/ GivePacket
  \/ ParsePacketCall

SpecParse == Init /\ [][NextParse]_vars

\* data[:34], and data padded with zero bytes to 34
Truncated(d) == SubSeq(d, 1, PACKET_SIZE)
Padded(d) == d \o [k \in 1..(PACKET_SIZE - Len(d)) |-> 0]

\* C20: decoding bytes whose length is not exactly 34 raises an error and
\* yields no record; in particular the outcome is not that of decoding the
\* first 34 bytes of a longer input, nor that of a shorter input padded to 34.
C20_LengthChecked ==
  (packet # NoPacket /\ Len(data) # PACKET_SIZE) =>
    /\ packet.raised = "ValueError"
    /\ packet.record = <<>>
    /\ Len(data) > PACKET_SIZE => packet # ParsePacket(Truncated(data))
    /\ Len(data) < PACKET_SIZE => packet # ParsePacket(Padded(data))

\* _parse_packet was given 35 bytes, one too many, and raised
C20_Witness ==
  /\ packet # NoPacket
  /\ Len(data) = PACKET_SIZE + 1
  /\ packet.raised = "ValueError"

\* ------------------------------------------------------------ signed fields
\* the signed fields of a frame: name, width in bits, first byte (from 0)
SignedFields ==
  {[name |-> "temp_cC", bits |-> 14, start |-> 3],
   [name |-> "mag_x", bits |-> 16, start |-> 7],
   [name |-> "mag_y", bits |-> 16, start |-> 9],
   [name |-> "mag_z", bits |-> 16, start |-> 11],
   [name |-> "accel_x", bits |-> 16, start |-> 13],
   [name |-> "accel_y", bits |-> 16, start |-> 15],
   [name |-> "accel_z", bits |-> 16, start |-> 17],
   [name |-> "gyro_x", bits |-> 16, start |-> 19],
   [name |-> "gyro_y", bits |-> 16, start |-> 21],
   [name |-> "gyro_z", bits |-> 16, start |-> 23],
   [name |-> "latitude", bits |-> 30, start |-> 25],
   [name |-> "longitude", bits |-> 30, start |-> 29]}

\* bytes of a frame a field of that width occupies
FieldBytes(f) == (f.bits + 7) \div 8

\* byte k (from 0) of the field in a frame holding raw value v there: the
\* bits of the last byte beyond the field's width keep the frame's own bits
FieldByte(d, f, v, k) ==
  LET b == (v \div Pow2(8 * k)) % 256
      used == f.bits - 8 * k
  IN IF used >= 8 THEN b
     ELSE b + Pow2(used) * (Byte(d, f.start + k) \div Pow2(used))

\* the frame d with the raw value v written into field f, little-endian
WithRaw(d, f, v) ==
  [i \in 1..Len(d) |->
     IF i - 1 \in f.start..(f.start + FieldBytes(f) - 1)
     THEN FieldByte(d, f, v, i - 1 - f.start)
     ELSE d[i]]

\* the raw value in the bits of field f of frame d
RECURSIVE RawBytes(_, _, _)
RawBytes(d, f, k) ==
  IF k = FieldBytes(f) THEN 0
  ELSE Byte(d, f.start + k) * Pow2(8 * k) + RawBytes(d, f, k + 1)

\* read without the spare bits of the last byte; at most 30 bits are summed,
\* the last byte being cut first
RawOf(d, f) ==
  LET last == FieldBytes(f) - 1
      spare == 8 * FieldBytes(f) - f.bits
      cut == [i \in 1..Len(d) |->
                IF i - 1 = f.start + last THEN d[i] % Pow2(8 - spare) ELSE d[i]]
  IN RawBytes(cut, f, 0)

\* raw values tried in a field of n bits: around zero, around the sign bit,
\* around the top, every power of two and its complement
EdgeValues(n) ==
  {v \in ({0, 1, Pow2(n - 1) - 1, Pow2(n - 1), Pow2(n - 1) + 1, Pow2(n) - 1}
            \cup {Pow2(k) : k \in 0..(n - 1)}
            \cup {Pow2(n) - Pow2(k) : k \in 0..(n - 1)}) : v \in 0..(Pow2(n) - 1)}

\* widest field whose raw values are all tried
FullRangeBits == 14

RawValues(n) == IF n <= FullRangeBits THEN 0..(Pow2(n) - 1) ELSE EdgeValues(n)

\* a frame of 34 equal bytes
Blank(fill) == [k \in 1..PACKET_SIZE |-> fill]

\* frames of fill bytes with a raw value in field f
FieldInputs(f, fill) == {WithRaw(Blank(fill), f, v) : v \in RawValues(f.bits)}

\* a caller picks a frame with one field set
GiveField ==
  /\ data = <<>>
  /\ packet = NoPacket
  /\ \E f \in SignedFields, fill \in FillBytes :
       \E d \in FieldInputs(f, fill) : data' = d
  /\ packet' = NoPacket
  /\ UNCHANGED <<service_vars, file, df>>

NextField ==
  \/ GiveField
  \/ ParsePacketCall

SpecField == Init /\ [][NextField]_vars

\* the field of a decoded record by name
FieldOf(rec, name) ==
  CASE name = "temp_cC" -> rec.temp_cC
    [] name = "mag_x" -> rec.mag_x
    [] name = "mag_y" -> rec.mag_y
    [] name = "mag_z" -> rec.mag_z
    [] name = "accel_x" -> rec.accel_x
    [] name = "accel_y" -> rec.accel_y
    [] name = "accel_z" -> rec.accel_z
    [] name = "gyro_x" -> rec.gyro_x
    [] name = "gyro_y" -> rec.gyro_y
    [] name = "gyro_z" -> rec.gyro_z
    [] name = "latitude" -> rec.latitude
    [] name = "longitude" -> rec.longitude

\* two's complement value of the n-bit raw value v
SignExtend(v, n) == IF v < Pow2(n - 1) THEN v ELSE v - Pow2(n)

\* C21: in a decoded frame every signed field (temperature 14 bits, mag,
\* accel, gyro 16 bits, latitude and longitude 30 bits) has, before scaling,
\* the value v of its raw bits when v < 2^(N-1) and v - 2^N otherwise.
C21_SignExtension ==
  (packet # NoPacket /\ Len(data) = PACKET_SIZE) =>
    /\ packet.record # <<>>
    /\ \A f \in SignedFields :
         FieldOf(packet.record[1], f.name) = SignExtend(RawOf(data, f), f.bits)

\* a frame whose latitude bits hold 2^29, the smallest negative raw value,
\* was decoded to -2^29
C21_Witness ==
  /\ packet # NoPacket /\ packet.record # <<>>
  /\ \E f \in SignedFields :
       /\ f.name = "latitude"
       /\ RawOf(data, f) = Pow2(29)
       /\ packet.record[1].latitude = 0 - Pow2(29)

\* ------------------------------------------------------------ create_test_file
\* byte k (from 0) of struct.pack('<I', v)
PackUInt32(v, k) == (v \div Pow2(8 * k)) % 256

\* the nine 16-bit values in the order the loop "for j in range(9)" writes them
Int16Values(rec) ==
  <<rec.mag_x, rec.mag_y, rec.mag_z, rec.accel_x, rec.accel_y, rec.accel_z,
    rec.gyro_x, rec.gyro_y, rec.gyro_z>>

\* the 34 bytes create_test_file writes for one packet (lines 287-327), with
\* the values of rec in place of the generated ones. "x & m" and "x >> n" on a
\* negative Python int work on its two's complement: x % 2^k and floor division.
EncodeFields(rec) ==
  LET time_ms == rec.time_ms
      temp == rec.temp_cC
      press == rec.pressPa
      offset == 7
      lat == rec.latitude % Pow2(30)
      lon == rec.longitude % Pow2(30)
      b(i) ==
        IF i = 0 THEN time_ms % 256
        ELSE IF i = 1 THEN (time_ms \div 256) % 256
        ELSE IF i = 2 THEN (time_ms \div 65536) % 256
        ELSE IF i = 3 THEN temp % 256
        ELSE IF i = 4 THEN ((temp \div 256) % 64) + 64 * (press % 4)
        ELSE IF i = 5 THEN (press \div 4) % 256
        ELSE IF i = 6 THEN (press \div 1024) % 16
        ELSE IF i < 25
        THEN LET j == (i - offset) \div 2
                 val == Int16Values(rec)[j + 1]
             IN IF (i - offset) % 2 = 0 THEN val % 256 ELSE (val \div 256) % 256
        ELSE IF i < 29 THEN PackUInt32(lat, i - 25)
        ELSE IF i < 33 THEN PackUInt32(lon, i - 29)
        ELSE rec.flags_raw
  IN [i \in 1..PACKET_SIZE |-> b(i - 1)]

\* the wire fields and the bits of a frame the encoder writes each to:
\* <<byte (from 0), lowest bit, number of bits>>
WireFields ==
  [time_ms   |-> {<<i, 0, 8>> : i \in 0..2},
   temp_cC   |-> {<<3, 0, 8>>, <<4, 0, 6>>},
   pressPa   |-> {<<4, 6, 2>>, <<5, 0, 8>>, <<6, 0, 4>>},
   mag       |-> {<<i, 0, 8>> : i \in 7..12},
   accel     |-> {<<i, 0, 8>> : i \in 13..18},
   gyro      |-> {<<i, 0, 8>> : i \in 19..24},
   latitude  |-> {<<25, 0, 8>>, <<26, 0, 8>>, <<27, 0, 8>>, <<28, 0, 6>>},
   longitude |-> {<<29, 0, 8>>, <<30, 0, 8>>, <<31, 0, 8>>, <<32, 0, 6>>},
   flags     |-> {<<33, 0, 8>>}]

\* the bits of frame d in the places ps
BitsAt(d, ps) == [p \in ps |-> (Byte(d, p[1]) \div Pow2(p[2])) % Pow2(p[3])]

\* re-encoding the decoded record reproduces the bits of the wire field
RoundTrips(name) ==
  BitsAt(EncodeFields(packet.record[1]), WireFields[name]) = BitsAt(data, WireFields[name])

\* C22: for a decoded 34-byte frame, writing the decoded wire fields with the
\* layout of create_test_file gives back, for every wire field, the bits the
\* frame holds in that field's place.
C22_RoundTrip ==
  (packet # NoPacket /\ Len(data) = PACKET_SIZE) =>
    \A name \in DOMAIN WireFields : RoundTrips(name)

\* the fields whose round trip holds: all but the pressure and the flags
C22_RoundTripOthers ==
  (packet # NoPacket /\ Len(data) = PACKET_SIZE) =>
    \A name \in DOMAIN WireFields \ {"pressPa", "flags"} : RoundTrips(name)

\* C23: in a decoded frame each of the eight named flags is set exactly when
\* its bit is set in byte 33, the last byte of the frame.
C23_FlagsFromLastByte ==
  (packet # NoPacket /\ Len(data) = PACKET_SIZE) =>
    \A k \in 0..7 :
      SYSTEM_FLAGS[k + 1] \in packet.record[1].flags <=> Bit(Byte(data, 33), k) = 1

\* ------------------------------------------------------------ telemetry files
\* most packets in a file
MaxFrames == 3

\* the values random.uniform gives the mag, accel and gyro fields, one draw
\* standing for all packets of a file
TestVals ==
  {[mag |-> 0 - 500, accel |-> 0 - 2000, gyro |-> 0 - 1800],
   [mag |-> 0, accel |-> 0, gyro |-> 0],
   [mag |-> 499, accel |-> 1999, gyro |-> 1799]}

\* the values of packet i of create_test_file (lines 289-327)
TestRecord(i, vals) ==
  [time_ms |-> i * 100, temp_cC |-> 2500, pressPa |-> 101325,
   mag_x |-> vals.mag, mag_y |-> vals.mag, mag_z |-> vals.mag,
   accel_x |-> vals.accel, accel_y |-> vals.accel, accel_z |-> vals.accel,
   gyro_x |-> vals.gyro, gyro_y |-> vals.gyro, gyro_z |-> vals.gyro,
   latitude |-> 557558000, longitude |-> 376176000, flags_raw |-> 67]

\* the bytes create_test_file(filename, num_packets) writes, from packet i on
RECURSIVE TestBytes(_, _, _)
TestBytes(i, num_packets, vals) ==
  IF i >= num_packets THEN <<>>
  ELSE EncodeFields(TestRecord(i, vals)) \o TestBytes(i + 1, num_packets, vals)

TestFiles == {TestBytes(0, n, vals) : n \in 0..MaxFrames, vals \in TestVals}

\* other files: up to MaxFrames frames of zero bytes with a time_ms of 0, 1
\* or 2 in any order, followed by no, 1 or 33 bytes 0xFF
FileTimes == 0..2
TailLengths == {0, 1, 33}
TimedFrame(t) == [k \in 1..PACKET_SIZE |-> IF k = 1 THEN t ELSE 0]

RECURSIVE Frames(_)
Frames(times) ==
  IF times = <<>> THEN <<>> ELSE TimedFrame(Head(times)) \o Frames(Tail(times))

FileInputs ==
  {Frames(times) \o [k \in 1..r |-> 255] :
     times \in UNION {[1..k -> FileTimes] : k \in 0..MaxFrames}, r \in TailLengths}

\* TelemetryParser.create_test_file(filename, num_packets)
CreateTestFile ==
  /\ ~file.exists
  /\ df = NoTable
  /\ \E bytes \in TestFiles : file' = [exists |-> TRUE, bytes |-> bytes]
  /\ UNCHANGED <<service_vars, data, packet, df>>

\* a telemetry log is put on disk
GiveFile ==
  /\ ~file.exists
  /\ df = NoTable
  /\ \E bytes \in FileInputs : file' = [exists |-> TRUE, bytes |-> bytes]
  /\ UNCHANGED <<service_vars, data, packet, df>>

\* parser.parse_file(filename)
ParseFileCall ==
  /\ df = NoTable
  /\ df' \in ParseFile(file)
  /\ UNCHANGED <<service_vars, data, packet, file>>

NextFile ==
  \/ CreateTestFile
  \/ GiveFile
  \/ ParseFileCall

SpecFile == Init /\ [][NextFile]_vars

\* parse_file returned a table
Returned_df == df # NoTable /\ df.raised = ""

\* C24: every row parse_file returns for a file written by create_test_file
\* has the pressure 101325 Pa the generator encoded, hence altitude 0.
C24_TestPressure ==
  (Returned_df /\ file.bytes \in TestFiles) =>
    \A i \in 1..Len(df.rows) :
      /\ df.rows[i].packet.pressPa = 101325
      /\ df.rows[i].altitude = 0

\* the frames of the file, decoded, in file order
RefFrames ==
  [i \in 1..(Len(file.bytes) \div PACKET_SIZE) |->
     DecodeFields(SubSeq(file.bytes, PACKET_SIZE * (i - 1) + 1, PACKET_SIZE * i))]

\* the decoded packets of the rows
RowPackets == [i \in 1..Len(df.rows) |-> df.rows[i].packet]

\* s is t in some order
IsPermutation(s, t) ==
  /\ Len(s) = Len(t)
  /\ \E p \in [1..Len(s) -> 1..Len(s)] :
       /\ \A i, j \in 1..Len(s) : p[i] = p[j] => i = j
       /\ \A i \in 1..Len(s) : s[i] = t[p[i]]

\* the file without the bytes after its last whole frame
WithoutTail(f) ==
  [f EXCEPT !.bytes = SubSeq(@, 1, PACKET_SIZE * (Len(@) \div PACKET_SIZE))]

\* the time_ms of the frames strictly increase through the file
Ascending ==
  \A i \in 1..(Len(RefFrames) - 1) : RefFrames[i].time_ms < RefFrames[i + 1].time_ms

\* C25 as stated: parse_file on a file of 34*k + r bytes raises nothing,
\* reports r ignored bytes and returns k records, record i decoded from the
\* bytes [34*i, 34*i + 34) of the file.
C25_Original ==
  (df # NoTable /\ file.exists) =>
    /\ df.raised = ""
    /\ df.ignored = Len(file.bytes) % PACKET_SIZE
    /\ RowPackets = RefFrames

\* C25 amended: parse_file on a file of 34*k + r bytes raises nothing, reports
\* r ignored bytes and returns k records, which are the decodings of the k
\* frames [34*i, 34*i + 34) in ascending order of time_ms: record i is the
\* decoding of frame i when the frames' time_ms strictly increase through the
\* file. The trailing r bytes influence no record.
C25_Amended ==
  (df # NoTable /\ file.exists) =>
    /\ df.raised = ""
    /\ df.ignored = Len(file.bytes) % PACKET_SIZE
    /\ Len(df.rows) = Len(file.bytes) \div PACKET_SIZE
    /\ IsPermutation(RowPackets, RefFrames)
    /\ Ascending => RowPackets = RefFrames
    /\ df.rows \in {t.rows : t \in ParseFile(WithoutTail(file))}

\* a file of two frames and 33 more bytes was parsed: two records, 33 bytes
\* reported
C25_Witness ==
  /\ Returned_df
  /\ Len(file.bytes) = 2 * PACKET_SIZE + 33
  /\ Len(df.rows) = 2
  /\ df.ignored = 33

\* C26: the rows parse_file returns are in non-decreasing order of time_ms,
\* whatever the order of the frames in the file, and they are the decoded
\* frames in some order, none dropped and none twice.
C26_SortedPermutation ==
  Returned_df =>
    /\ \A i \in 1..(Len(df.rows) - 1) : df.rows[i].time_ms <= df.rows[i + 1].time_ms
    /\ \A i \in 1..Len(df.rows) : df.rows[i].time_ms = df.rows[i].packet.time_ms
    /\ IsPermutation(RowPackets, RefFrames)

\* a file whose three frames are in descending order of time_ms, two of them
\* at the same time, was parsed
C26_Witness ==
  /\ Returned_df
  /\ Len(df.rows) = 3
  /\ RefFrames[1].time_ms > RefFrames[2].time_ms
  /\ RefFrames[2].time_ms = RefFrames[3].time_ms

\* C30: in the table parse_file returns the first row has time_s = 0 and no
\* row has a negative time_s, for any order of the frames in the file.
C30_AnchoredAtEarliest ==
  (Returned_df /\ df.rows # <<>>) =>
    /\ df.rows[1].time_s = 0
    /\ \A i \in 1..Len(df.rows) : df.rows[i].time_s >= 0

\* C27: when connect_lora_link and disconnect_lora_link, called by two
\* threads on a fresh service, have both returned, the LoRa channel is as one
\* of the two orders leaves it: the port open with monitoring on (connect
\* returned True), or the port closed with monitoring off.
C27_Linearizable ==
  \A c1, c2 \in Callers :
    (/\ nops = 2
     /\ pc[c1] = "idle" /\ ret[c1].op = "connect_lora_link"
     /\ pc[c2] = "idle" /\ ret[c2].op = "disconnect_lora_link") =>
      \/ ret[c1].ok /\ IsOpen(lora_port) /\ is_lora_monitoring
      \/ ~IsOpen(lora_port) /\ ~is_lora_monitoring

\* The monitor thread keeps running: each step of its loop that stays possible
\* is taken. Nothing is assumed about the link, which may send no more bytes.
MonitorRuns ==
  \A t \in Monitors :
    /\ WF_vars(LoraLoopPoll(t))
    /\ WF_vars(LoraRead(t))
    /\ WF_vars(ProcessDone(t))
    /\ WF_vars(ProcessLine(t))

SpecFrameLive == SpecFrame /\ MonitorRuns

\* lora_buffer holds a complete non-empty line
HoldsLine == RefLines(lora_buffer) # <<>>

\* C28: while monitoring runs on the open port, a complete non-empty line in
\* lora_buffer does not stay there: eventually the buffer holds none, also
\* when the link sends nothing more.
C28_BufferDrains == HoldsLine ~> ~HoldsLine

\* C29: a connect_device or connect_lora_link call that returns False after
\* the discovery (the open failed) leaves the connection that was open on its
\* channel when the call began (loc[c].prev, history) open.
C29_FailedConnectKeepsPort ==
  [][\A c \in Callers :
       (/\ pc[c] \in {"cd_open", "cl_open"}
        /\ pc'[c] = "idle" /\ ~ret'[c].ok
        /\ loc[c].prev # None) =>
         handles'[loc[c].prev].open]_vars

\* the number of telemetry lines among lines
RECURSIVE RefCountTelemetry(_)
RefCountTelemetry(lines) ==
  IF lines = <<>> THEN 0
  ELSE (IF IsTelemetryLine(Head(lines)) THEN 1 ELSE 0) + RefCountTelemetry(Tail(lines))

\* C19: when all text read so far ends with a newline and no callback is
\* pending, the telemetry callback has been invoked once for every complete
\* telemetry line in that text, however the bytes were split across polls
\* and however many lines one poll found.
C19_OncePerLine ==
  (/\ \A t \in TeleMonitors : pc[t] = "tm_top"
   /\ hist.tele_text # <<>>
   /\ hist.tele_text[Len(hist.tele_text)] = LF)
    => hist.callbacks = RefCountTelemetry(RefLines(hist.tele_text))

====
